---- MODULE Spec2Model ----
(***************************************************************************)
(* QuMail: layered encryption pipeline and its key-acquisition subsystem.  *)
(*                                                                         *)
(*   pqc_key_server.py   the key server (symmetric_keys table, handlers)   *)
(*   qkd_service.py      the quantum key simulator and its cache           *)
(*   crypto_services.py  CryptoService.encrypt / decrypt                   *)
(*   email_controller.py handle_send_email                                 *)
(*                                                                         *)
(* Bytes are naturals, byte strings are sequences of naturals.  The        *)
(* primitives of external libraries (AES-GCM, PBKDF2, SHA-256, Kyber) are  *)
(* modelled as ideal primitives: deterministic functions of their inputs,  *)
(* with a tag that changes with any one bit of key, nonce or ciphertext.   *)
(***************************************************************************)
EXTENDS Integers, Sequences, FiniteSets, TLC

VARIABLES
    symmetric_keys,   \* key server: table symmetric_keys, key_id -> key_hex
    issued,           \* key server: key ids handed out so far (uuid4 never repeats)
    req,              \* key server: the worker threads serving get-symmetric-key-by-id
    retrieved,        \* history: per key id, the number of 200 responses of retrieve-by-id
    qkd_client,       \* per instance: QKDService.qkd_client is set (initialized)
    cache,            \* per instance: QKDService._quantum_keys_cache
    qkd_keys,         \* directory: the /qkd_keys/<key_id> records
    clock,            \* the event loop's time, read for the timestamp of a key
    envelope,         \* the message in flight: made by encrypt, or handed to the
                      \* mail transport by handle_send_email; with its inputs
    outcome,          \* the call made last and its result
    pqc_public_keys,  \* directory: the /pqc_public_keys/<email> records
    calls,            \* the number of encrypt / handle_send_email calls made so far
    pqc_keys,         \* key server: table pqc_keys, userId -> the user's key pair
    kem_generated,    \* key server: the key pairs generated so far (none repeats)
    settings,         \* per user: the saved settings (config.ini and the keyring)
    lookup            \* per caller: its get_quantum_key_by_id call, suspended or done

vars == <<symmetric_keys, issued, req, retrieved, qkd_client, cache, qkd_keys,
          clock, envelope, outcome, pqc_public_keys, calls,
          pqc_keys, kem_generated, settings, lookup>>

serverVars == <<symmetric_keys, issued, req, retrieved>>
qkdVars    == <<qkd_client, cache, qkd_keys, clock>>
kemVars    == <<pqc_keys, kem_generated, settings>>
clientVars == <<envelope, outcome, pqc_public_keys, kemVars, lookup>>

\* Python's None where a string is expected
None == "None"

\* an exception raised by a call, as the call's result
Error(kind) == [error |-> kind]
IsError(r) == "error" \in DOMAIN r

\* no envelope, no mail, no call yet
NoEnvelope == [none |-> TRUE]
NoPayload == [none |-> TRUE]
NoCall == [op |-> "none"]

\* uuid.uuid4() / os.urandom(16): an identifier not used before
FreshId(unused) == CHOOSE k \in unused : \A j \in unused : k <= j

\* cur.fetchone() without a row
NoRow == << >>

(***************************************************************************)
(* Bounds of the model.                                                    *)
(***************************************************************************)
NumWorkers == 2      \* threads of the server's pool serving retrieve-by-id
MaxSymKeys == 2      \* key ids the key server issues in one run
MaxQkdKeys == 2      \* key ids the simulator generates in one run
MaxCalls == 1        \* encrypt / handle_send_email calls in one run
MaxKemPairs == 3     \* key pairs the key server generates in one run
NumCallers == 2      \* coroutines of one run that call get_quantum_key_by_id
MaxKeyLength == 70   \* the longest key asked of get_deterministic_key: more than two blocks

Workers   == 1..NumWorkers
SymKeyIds == 1..MaxSymKeys
QkdKeyIds == 1..MaxQkdKeys
KemPairIds == 1..MaxKemPairs
Callers   == 1..NumCallers

\* the installations of the client: the sender's and the recipient's
Instances == {"alice", "bob"}

(***************************************************************************)
(* Byte-string helpers.                                                    *)
(***************************************************************************)
\* a sequence given by its elements, computed once
Bytes(f) == << >> \o f

XorAdd(x, y) == (x + y) % 256

RECURSIVE XorByte(_, _)
\* x ^ y on two byte values
XorByte(x, y) ==
    IF x = 0 THEN y
    ELSE IF y = 0 THEN x
    ELSE (((x % 2) + (y % 2)) % 2) + 2 * XorByte(x \div 2, y \div 2)

\* bytes.hex(): two hexadecimal digits per byte
Hex(bs) == Bytes([i \in 1..(2 * Len(bs)) |->
                    IF i % 2 = 1 THEN (bs[(i + 1) \div 2]) \div 16
                                 ELSE (bs[i \div 2]) % 16])

\* bytes.fromhex(): the inverse, two digits to one byte
FromHex(hs) == Bytes([i \in 1..(Len(hs) \div 2) |-> (16 * hs[(2 * i) - 1]) + hs[2 * i]])

\* one hexadecimal digit as a character
HexChar(d) == IF d < 10 THEN 48 + d ELSE 87 + d

\* secrets.token_hex / os.urandom: the random source, n bytes from a seed
RandomBytes(seed, n) == Bytes([i \in 1..n |-> ((seed * 37) + (i * 11)) % 256])

Seeds == {3, 5}

(***************************************************************************)
(* Encodings used by crypto_services.py: UTF-8, base64, JSON.              *)
(***************************************************************************)
RECURSIVE Concat(_, _)
\* the concatenation of the sequences ss[i..]
Concat(ss, i) == IF i > Len(ss) THEN << >> ELSE ss[i] \o Concat(ss, i + 1)

RECURSIVE BytesSum(_, _)
BytesSum(bs, i) == IF i > Len(bs) THEN 0 ELSE bs[i] + BytesSum(bs, i + 1)

\* str.encode('utf-8') for code points below 2048
Utf8Encode(str) ==
    Concat([j \in 1..Len(str) |->
              IF str[j] < 128 THEN <<str[j]>>
              ELSE <<192 + (str[j] \div 64), 128 + (str[j] % 64)>>], 1)

RECURSIVE Utf8DecodeFrom(_, _)
\* bytes.decode('utf-8'); <<-1>> marks a UnicodeDecodeError
Utf8DecodeFrom(bs, p) ==
    IF p > Len(bs) THEN << >>
    ELSE IF bs[p] < 128 THEN <<bs[p]>> \o Utf8DecodeFrom(bs, p + 1)
    ELSE IF bs[p] >= 194 /\ bs[p] < 224 /\ p + 1 <= Len(bs)
            /\ bs[p + 1] >= 128 /\ bs[p + 1] < 192
    THEN <<((bs[p] - 192) * 64) + (bs[p + 1] - 128)>> \o Utf8DecodeFrom(bs, p + 2)
    ELSE <<-1>>

Utf8Decode(bs) == Utf8DecodeFrom(bs, 1)
Utf8Valid(bs) == \A j \in 1..Len(Utf8Decode(bs)) : Utf8Decode(bs)[j] >= 0

\* the base64 alphabet: A-Z a-z 0-9 + / and the padding '='
B64Char(v) ==
    IF v < 26 THEN 65 + v
    ELSE IF v < 52 THEN 71 + v
    ELSE IF v < 62 THEN v - 4
    ELSE IF v = 62 THEN 43
    ELSE IF v = 63 THEN 47
    ELSE 61

B64Value(c) ==
    IF c >= 65 /\ c <= 90 THEN c - 65
    ELSE IF c >= 97 /\ c <= 122 THEN c - 71
    ELSE IF c >= 48 /\ c <= 57 THEN c + 4
    ELSE IF c = 43 THEN 62
    ELSE IF c = 47 THEN 63
    ELSE 0

Pow(b, e) == IF e = 0 THEN 1 ELSE IF e = 1 THEN b ELSE IF e = 2 THEN b * b ELSE b * b * b

\* base64.b64encode(bs).decode('utf-8'): three bytes to four characters
B64Encode(bs) ==
    LET n == Len(bs)
        At(k) == IF k <= n THEN bs[k] ELSE 0
    IN Bytes([j \in 1..(4 * ((n + 2) \div 3)) |->
          LET g == ((j - 1) \div 4) + 1
              pos == (j - 1) % 4
              v == (At((3 * g) - 2) * 65536) + (At((3 * g) - 1) * 256) + At(3 * g)
          IN IF pos = 2 /\ (3 * g) - 1 > n THEN 61
             ELSE IF pos = 3 /\ 3 * g > n THEN 61
             ELSE B64Char((v \div Pow(64, 3 - pos)) % 64)])

\* base64.b64decode(cs): four characters to three bytes, less the padding
B64Decode(cs) ==
    LET m == Len(cs)
        pads == IF m = 0 THEN 0
                ELSE (IF cs[m] = 61 THEN 1 ELSE 0) + (IF cs[m - 1] = 61 THEN 1 ELSE 0)
    IN Bytes([i \in 1..((3 * (m \div 4)) - pads) |->
          LET g == ((i - 1) \div 3) + 1
              pos == (i - 1) % 3
              v == (B64Value(cs[(4 * g) - 3]) * 262144) + (B64Value(cs[(4 * g) - 2]) * 4096)
                   + (B64Value(cs[(4 * g) - 1]) * 64) + B64Value(cs[4 * g])
          IN (v \div Pow(256, 2 - pos)) % 256])

\* one character of a JSON string as json.dumps (ensure_ascii) writes it
JsonChar(c) ==
    IF c = 34 \/ c = 92 THEN <<92, c>>
    ELSE IF c < 32 \/ c > 126
    THEN <<92, 117, HexChar(c \div 4096), HexChar((c \div 256) % 16),
           HexChar((c \div 16) % 16), HexChar(c % 16)>>
    ELSE <<c>>

JsonString(str) == <<34>> \o Concat([j \in 1..Len(str) |-> JsonChar(str[j])], 1) \o <<34>>

\* json.dumps(payload_dict).encode('utf-8'): the object with the body and the
\* list of attachments, each a filename and a content_b64 (the member names,
\* fixed text, are left out)
JsonDumps(payload_dict) ==
    <<123>> \o JsonString(payload_dict.body) \o <<91>>
    \o Concat([j \in 1..Len(payload_dict.attachments) |->
                 <<123>> \o JsonString(payload_dict.attachments[j].filename)
                 \o JsonString(payload_dict.attachments[j].content_b64) \o <<125>>], 1)
    \o <<93, 125>>

ParseError == [ok |-> FALSE]

IsHexChar(c) == (c >= 48 /\ c <= 57) \/ (c >= 97 /\ c <= 102)
HexCharValue(c) == IF c <= 57 THEN c - 48 ELSE c - 87

RECURSIVE ParseChars(_, _, _)
\* the characters of a JSON string up to its closing quote
ParseChars(bs, p, acc) ==
    IF p > Len(bs) THEN ParseError
    ELSE IF bs[p] = 34 THEN [ok |-> TRUE, val |-> acc, next |-> p + 1]
    ELSE IF bs[p] = 92
    THEN IF p + 1 > Len(bs) THEN ParseError
         ELSE IF bs[p + 1] = 34 \/ bs[p + 1] = 92
         THEN ParseChars(bs, p + 2, Append(acc, bs[p + 1]))
         ELSE IF bs[p + 1] = 117 /\ p + 5 <= Len(bs)
                 /\ \A q \in (p + 2)..(p + 5) : IsHexChar(bs[q])
         THEN ParseChars(bs, p + 6,
                  Append(acc, (HexCharValue(bs[p + 2]) * 4096) + (HexCharValue(bs[p + 3]) * 256)
                              + (HexCharValue(bs[p + 4]) * 16) + HexCharValue(bs[p + 5])))
         ELSE ParseError
    ELSE IF bs[p] < 32 \/ bs[p] > 126 THEN ParseError
    ELSE ParseChars(bs, p + 1, Append(acc, bs[p]))

ParseString(bs, p) ==
    IF p > Len(bs) THEN ParseError
    ELSE IF bs[p] # 34 THEN ParseError
    ELSE ParseChars(bs, p + 1, << >>)

RECURSIVE ParseAttachments(_, _, _)
ParseAttachments(bs, p, acc) ==
    IF p > Len(bs) THEN ParseError
    ELSE IF bs[p] = 93 THEN [ok |-> TRUE, val |-> acc, next |-> p + 1]
    ELSE IF bs[p] # 123 THEN ParseError
    ELSE LET filename == ParseString(bs, p + 1) IN
         IF ~filename.ok THEN ParseError
         ELSE LET content_b64 == ParseString(bs, filename.next) IN
              IF ~content_b64.ok THEN ParseError
              ELSE IF content_b64.next > Len(bs) THEN ParseError
              ELSE IF bs[content_b64.next] # 125 THEN ParseError
              ELSE ParseAttachments(bs, content_b64.next + 1,
                       Append(acc, [filename |-> filename.val,
                                    content_b64 |-> content_b64.val]))

\* json.loads(decrypted_payload_bytes); ParseError stands for JSONDecodeError
JsonLoads(bs) ==
    IF Len(bs) = 0 THEN ParseError
    ELSE IF bs[1] # 123 THEN ParseError
    ELSE LET body == ParseString(bs, 2) IN
         IF ~body.ok THEN ParseError
         ELSE IF body.next > Len(bs) THEN ParseError
         ELSE IF bs[body.next] # 91 THEN ParseError
         ELSE LET atts == ParseAttachments(bs, body.next + 1, << >>) IN
              IF ~atts.ok THEN ParseError
              ELSE IF atts.next # Len(bs) THEN ParseError
              ELSE IF bs[atts.next] # 125 THEN ParseError
              ELSE [ok |-> TRUE, val |-> [body |-> body.val, attachments |-> atts.val]]

(***************************************************************************)
(* pqc_key_server.py: the symmetric key store.                             *)
(***************************************************************************)
\* cur.execute("INSERT INTO symmetric_keys (key_id, key_hex) VALUES (?, ?)")
InsertRow(table, key_id, key_hex) ==
    [k \in (DOMAIN table) \cup {key_id} |-> IF k = key_id THEN key_hex ELSE table[k]]

\* cur.execute("SELECT key_hex ... WHERE key_id = ?"); cur.fetchone()
SelectRow(table, key_id) ==
    IF key_id \in DOMAIN table THEN <<table[key_id]>> ELSE NoRow

DeleteRowSkipped(table, key_id) == table

DeleteRows(table, key_id) == << >>

\* cur.execute("DELETE FROM symmetric_keys WHERE key_id = ?")
DeleteRow(table, key_id) ==
    [k \in (DOMAIN table) \ {key_id} |-> table[k]]

IdleReq == [pc |-> "idle", key_id |-> 0, result |-> NoRow, status |-> 0,
            key_hex |-> << >>, after |-> FALSE]

\* Key lengths requested of the server in the key-server specification.
ServerKeyLengths == {1, 32}

\* GET /get-symmetric-key?key_length_bytes=n
get_symmetric_key(n, seed) ==
    /\ issued # SymKeyIds
    /\ LET key_id == FreshId(SymKeyIds \ issued) IN
         /\ symmetric_keys' = InsertRow(symmetric_keys, key_id, Hex(RandomBytes(seed + key_id, n)))
         /\ issued' = issued \cup {key_id}
    /\ UNCHANGED <<req, retrieved>>

\* GET /get-symmetric-key-by-id/{key_id} arrives and is given to a pool thread
ByIdArrive(w, key_id) ==
    /\ req[w].pc = "idle"
    /\ req' = [req EXCEPT ![w] = [IdleReq EXCEPT !.pc = "select", !.key_id = key_id,
                                                 !.after = (retrieved[key_id] > 0)]]
    /\ UNCHANGED <<symmetric_keys, issued, retrieved>>

\* the SELECT and fetchone; "if not result: raise HTTPException(404)"
ByIdSelect(w) ==
    /\ req[w].pc = "select"
    /\ LET result == SelectRow(symmetric_keys, req[w].key_id) IN
         req' = [req EXCEPT ![w] =
                   IF result = NoRow
                   THEN [@ EXCEPT !.pc = "done", !.status = 404]
                   ELSE [@ EXCEPT !.pc = "delete", !.result = result, !.key_hex = result[1]]]
    /\ UNCHANGED <<symmetric_keys, issued, retrieved>>

\* the DELETE
ByIdDelete(w) ==
    /\ req[w].pc = "delete"
    /\ symmetric_keys' = DeleteRow(symmetric_keys, req[w].key_id)
    /\ req' = [req EXCEPT ![w].pc = "commit"]
    /\ UNCHANGED <<issued, retrieved>>

\* db_connection.commit(); return SymmetricKeyByIdResponse(key_hex=key_hex)
ByIdCommit(w) ==
    /\ req[w].pc = "commit"
    /\ req' = [req EXCEPT ![w].pc = "done", ![w].status = 200]
    /\ retrieved' = [retrieved EXCEPT ![req[w].key_id] = @ + 1]
    /\ UNCHANGED <<symmetric_keys, issued>>

\* the response is delivered and the thread goes back to the pool
ByIdRespond(w) ==
    /\ req[w].pc = "done"
    /\ req' = [req EXCEPT ![w] = IdleReq]
    /\ UNCHANGED <<symmetric_keys, issued, retrieved>>

(***************************************************************************)
(* qkd_service.py: the quantum key simulator.                              *)
(***************************************************************************)
RECURSIVE WeightedSum(_, _)
WeightedSum(bs, i) ==
    IF i > Len(bs) THEN 0 ELSE ((i + 1) * bs[i]) + WeightedSum(bs, i + 1)

\* hashes.Hash(hashes.SHA256()): a 32-byte digest, a function of the input bytes
Sha256(bs) ==
    LET h == (WeightedSum(bs, 1) + (7 * Len(bs)) + 1) % 65521
    IN Bytes([i \in 1..32 |-> ((h * (i + 3)) + (5 * i * i) + (h \div 7)) % 256])

\* f"qkd_{os.urandom(16).hex()}".encode('utf-8'); the model's key_id r names
\* the 16 random bytes
KeyIdBytes(key_id) ==
    LET hs == Hex(RandomBytes(key_id, 16))
    IN <<113, 107, 100, 95>> \o Bytes([j \in 1..Len(hs) |-> HexChar(hs[j])])

RECURSIVE Expand(_, _, _)
\* the while loop of get_deterministic_key
Expand(seed, key, key_length) ==
    IF Len(key) < key_length
    THEN LET next_block == Sha256(seed)
         IN Expand(next_block, key \o next_block, key_length)
    ELSE key

\* MockQKDClient.get_key: fresh randomness at every call
get_key_random(key_id, key_length) == RandomBytes(clock + key_id, key_length)

get_key_by_time(key_id, key_length) ==
    RandomBytes((2 * clock) + key_id + key_length, key_length)

get_deterministic_key_blocks(key_id, key_length) ==
    Expand(Sha256(KeyIdBytes(key_id)), << >>, key_length)

\* MockQKDClient.get_deterministic_key
get_deterministic_key(key_id, key_length) ==
    SubSeq(Expand(Sha256(KeyIdBytes(key_id)), << >>, key_length), 1, key_length)

\* a call of MockQKDClient.get_deterministic_key(key_id, key_length)
MockQKDClient_get_deterministic_key(key_id, key_length) ==
    /\ outcome' = [op |-> "get_deterministic_key", key_id |-> key_id,
                   key_length |-> key_length,
                   key |-> get_deterministic_key(key_id, key_length)]
    /\ UNCHANGED <<qkdVars, envelope, pqc_public_keys, serverVars, kemVars, lookup>>

\* Python truthiness of an optional string
Falsy(x) == x = None \/ x = ""

\* the dictionary key_metadata built by get_quantum_key
KeyMetadata(key_id, key_length_bytes, recipient_email) ==
    [key_id |-> key_id,
     key_hex |-> Hex(get_deterministic_key(key_id, key_length_bytes)),
     key_length_bytes |-> key_length_bytes,
     timestamp |-> clock,
     recipient_email |-> recipient_email,
     source |-> "qkd_simulation"]

metadata_with_key(key_metadata) == key_metadata

\* metadata_to_store of _store_key_metadata_in_firebase
metadata_to_store(key_metadata) ==
    [key_id |-> key_metadata.key_id,
     key_length_bytes |-> key_metadata.key_length_bytes,
     timestamp |-> key_metadata.timestamp,
     recipient_email |-> key_metadata.recipient_email,
     source |-> key_metadata.source]

\* _store_key_metadata_in_firebase: the PUT, whose failure is logged and dropped
StoreKeyMetadata(directory, key_id, key_metadata, put) ==
    IF put = "ok"
    THEN InsertRow(directory, key_id, metadata_to_store(key_metadata))
    ELSE directory

GetKeyMetadataDefault(directory, key_id, get) ==
    IF get = "ok" /\ key_id \in DOMAIN directory
    THEN directory[key_id]
    ELSE [key_id |-> key_id, key_length_bytes |-> 32, timestamp |-> 0,
          recipient_email |-> None, source |-> "qkd_simulation"]

\* _get_key_metadata_from_firebase: the GET; None on any failure or absent record
GetKeyMetadata(directory, key_id, get) ==
    IF get = "ok" /\ key_id \in DOMAIN directory
    THEN directory[key_id]
    ELSE Error("None")

\* key ids generated so far (16 random bytes do not repeat)
UsedQkdIds == UNION {DOMAIN cache[i] : i \in Instances}

QkdNewKeyPublished(i, key_metadata, put) ==
    /\ qkd_client' = [qkd_client EXCEPT ![i] = TRUE]
    /\ cache' = IF put = "ok" \/ Falsy(key_metadata.recipient_email)
                THEN [cache EXCEPT ![i] = InsertRow(@, key_metadata.key_id, key_metadata)]
                ELSE cache
    /\ qkd_keys' = IF Falsy(key_metadata.recipient_email)
                   THEN qkd_keys
                   ELSE StoreKeyMetadata(qkd_keys, key_metadata.key_id, key_metadata, put)
    /\ clock' = clock + 1

\* the effect of QKDService.get_quantum_key on the simulator and the directory
QkdNewKey(i, key_metadata, put) ==
    /\ qkd_client' = [qkd_client EXCEPT ![i] = TRUE]
    /\ cache' = [cache EXCEPT ![i] = InsertRow(@, key_metadata.key_id, key_metadata)]
    /\ qkd_keys' = IF Falsy(key_metadata.recipient_email)
                   THEN qkd_keys
                   ELSE StoreKeyMetadata(qkd_keys, key_metadata.key_id, key_metadata, put)
    /\ clock' = clock + 1

\* the value QKDService.get_quantum_key_by_id returns or the error it raises
QkdLookup(i, key_id, get) ==
    IF key_id \in DOMAIN cache[i]
    THEN cache[i][key_id]
    ELSE LET key_metadata == GetKeyMetadata(qkd_keys, key_id, get) IN
         IF IsError(key_metadata) THEN Error("QKDServiceError: not found")
         ELSE IF ~qkd_client[i] THEN Error("QKDServiceError: AttributeError")
         ELSE [f \in (DOMAIN key_metadata) \cup {"key_hex"} |->
                 IF f = "key_hex"
                 THEN Hex(get_deterministic_key(key_id, key_metadata.key_length_bytes))
                 ELSE key_metadata[f]]

QkdLookupCacheConsumed(i, key_id, get) ==
    LET r == QkdLookup(i, key_id, get) IN
    IF IsError(r) THEN cache
    ELSE IF key_id \in DOMAIN cache[i]
    THEN [cache EXCEPT ![i] = DeleteRow(@, key_id)]
    ELSE [cache EXCEPT ![i] = InsertRow(@, key_id, r)]

\* the effect of QKDService.get_quantum_key_by_id on the cache
QkdLookupCache(i, key_id, get) ==
    LET r == QkdLookup(i, key_id, get) IN
    IF IsError(r) \/ key_id \in DOMAIN cache[i]
    THEN cache
    ELSE [cache EXCEPT ![i] = InsertRow(@, key_id, r)]

\* QKDService.initialize
initialize(i) ==
    /\ ~qkd_client[i]
    /\ qkd_client' = [qkd_client EXCEPT ![i] = TRUE]
    /\ outcome' = [op |-> "initialize", inst |-> i]
    /\ UNCHANGED <<cache, qkd_keys, clock, envelope, pqc_public_keys, serverVars, kemVars, lookup>>

\* QKDService.close
close(i) ==
    /\ qkd_client[i]
    /\ qkd_client' = [qkd_client EXCEPT ![i] = FALSE]
    /\ outcome' = [op |-> "close", inst |-> i]
    /\ UNCHANGED <<cache, qkd_keys, clock, envelope, pqc_public_keys, serverVars, kemVars, lookup>>

\* QKDService.get_quantum_key(key_length_bytes, recipient_email)
get_quantum_key(i, key_length_bytes, recipient_email, put) ==
    /\ UsedQkdIds # QkdKeyIds
    /\ LET key_id == FreshId(QkdKeyIds \ UsedQkdIds)
           key_metadata == KeyMetadata(key_id, key_length_bytes, recipient_email) IN
        /\ QkdNewKey(i, key_metadata, put)
        /\ outcome' = [op |-> "get_quantum_key", inst |-> i, key_id |-> key_id,
                       result |-> key_metadata]
        /\ UNCHANGED <<envelope, pqc_public_keys, serverVars, kemVars, lookup>>

\* QKDService.get_quantum_key_by_id(key_id)
get_quantum_key_by_id(i, key_id, get) ==
    /\ cache' = QkdLookupCache(i, key_id, get)
    /\ outcome' = [op |-> "get_quantum_key_by_id", inst |-> i, key_id |-> key_id,
                   result |-> QkdLookup(i, key_id, get),
                   hit |-> (key_id \in DOMAIN cache[i]),
                   initialized |-> qkd_client[i], get |-> get]
    /\ UNCHANGED <<qkd_client, qkd_keys, clock, envelope, pqc_public_keys, serverVars, kemVars, lookup>>

\* a caller that is not inside get_quantum_key_by_id
IdleLookup == [pc |-> "idle", inst |-> "", key_id |-> 0, key_metadata |-> << >>,
               result |-> << >>]

\* get_quantum_key_by_id(key_id) called by coroutine c of installation i, up to
\* its first suspension: a key in the cache is returned at once, otherwise the
\* coroutine awaits _get_key_metadata_from_firebase and others run
LookupStart(c, i, key_id) ==
    /\ lookup[c].pc \in {"idle", "done"}
    /\ lookup' = [lookup EXCEPT ![c] =
          IF key_id \in DOMAIN cache[i]
          THEN [IdleLookup EXCEPT !.pc = "done", !.inst = i, !.key_id = key_id,
                                  !.result = cache[i][key_id]]
          ELSE [IdleLookup EXCEPT !.pc = "get", !.inst = i, !.key_id = key_id]]
    /\ outcome' = [op |-> "lookup start", caller |-> c,
                   hit |-> (key_id \in DOMAIN cache[i])]
    /\ UNCHANGED <<qkdVars, envelope, pqc_public_keys, serverVars, kemVars>>

\* the answer of the directory to the GET of coroutine c arrives
LookupFetch(c, get) ==
    /\ lookup[c].pc = "get"
    /\ lookup' = [lookup EXCEPT ![c].pc = "resume",
          ![c].key_metadata = GetKeyMetadata(qkd_keys, lookup[c].key_id, get)]
    /\ outcome' = [op |-> "lookup fetch", caller |-> c, get |-> get]
    /\ UNCHANGED <<qkdVars, envelope, pqc_public_keys, serverVars, kemVars>>

\* coroutine c resumes after the await: "if key_metadata:" derive key_hex,
\* insert into the cache and return, else raise QKDServiceError
LookupFinish(c) ==
    /\ lookup[c].pc = "resume"
    /\ LET i == lookup[c].inst
           key_id == lookup[c].key_id
           key_metadata == lookup[c].key_metadata
           result ==
               IF IsError(key_metadata) THEN Error("QKDServiceError: not found")
               ELSE IF ~qkd_client[i] THEN Error("QKDServiceError: AttributeError")
               ELSE [f \in (DOMAIN key_metadata) \cup {"key_hex"} |->
                       IF f = "key_hex"
                       THEN Hex(get_deterministic_key(key_id, key_metadata.key_length_bytes))
                       ELSE key_metadata[f]]
       IN /\ cache' = IF IsError(result) THEN cache
                      ELSE [cache EXCEPT ![i] = InsertRow(@, key_id, result)]
          /\ lookup' = [lookup EXCEPT ![c].pc = "done", ![c].result = result]
          /\ outcome' = [op |-> "lookup finish", caller |-> c,
                         raced |-> (key_id \in DOMAIN cache[i])]
    /\ UNCHANGED <<qkd_client, qkd_keys, clock, envelope, pqc_public_keys, serverVars, kemVars>>

\* Key lengths and recipients of the direct calls to the simulator.
QkdKeyLengths == {5, 40}
Recipients == {None, "bob@example.com"}
NetOutcomes == {"ok", "fail"}

(***************************************************************************)
(* crypto_services.py: the primitives CryptoService calls.                 *)
(***************************************************************************)
Min(a, b) == IF a <= b THEN a ELSE b
Max(a, b) == IF a >= b THEN a ELSE b

\* bytes(x ^ y for x, y in zip(a, b)): as long as the shorter operand
XorZip(a, b) == Bytes([j \in 1..Min(Len(a), Len(b)) |-> XorByte(a[j], b[j])])

\* bytes.ljust(n, b'\0')
Ljust(bs, n) == Bytes([j \in 1..Max(Len(bs), n) |-> IF j <= Len(bs) THEN bs[j] ELSE 0])

Cyc(bs, j) == bs[1 + ((j - 1) % Len(bs))]

\* algorithms.AES(key) accepts keys of 128, 192 and 256 bits
AesKeyValid(key) == Len(key) \in {16, 24, 32}

\* AES in counter mode: the key stream of (key, nonce)
GcmKeystream(key, nonce, n) ==
    Bytes([j \in 1..n |-> (Cyc(key, j) + (3 * Cyc(nonce, j)) + (7 * j)) % 256])

\* the 16-byte GCM tag of a ciphertext under (key, nonce)
GcmTag(key, nonce, ct) ==
    LET sum == BytesSum(ct, 1)
    IN Bytes([j \in 1..16 |-> (Cyc(key, j) + (2 * Cyc(key, j + 16)) + Cyc(nonce, j)
                             + sum + (j * Len(ct))) % 256])

\* Cipher(AES(key), GCM(nonce)).encryptor(): update, finalize, tag
GcmEncrypt(key, nonce, plaintext) ==
    LET ct == XorZip(plaintext, GcmKeystream(key, nonce, Len(plaintext)))
    IN [ciphertext |-> ct, tag |-> GcmTag(key, nonce, ct)]

GcmDecryptUnverified(key, nonce, ct, tag) ==
    [plaintext |-> XorZip(ct, GcmKeystream(key, nonce, Len(ct)))]

\* Cipher(AES(key), GCM(nonce, tag)).decryptor(): update, finalize; InvalidTag
GcmDecrypt(key, nonce, ct, tag) ==
    IF tag # GcmTag(key, nonce, ct)
    THEN Error("InvalidTag")
    ELSE [plaintext |-> XorZip(ct, GcmKeystream(key, nonce, Len(ct)))]

\* CryptoService._derive_aes_key_from_quantum: PBKDF2-HMAC-SHA256, 32 bytes
derive_aes_key_from_quantum(quantum_key_hex, salt) ==
    LET quantum_key_bytes == FromHex(quantum_key_hex)
        sum == WeightedSum(quantum_key_bytes, 1)
    IN Bytes([j \in 1..32 |-> (sum + (3 * Cyc(salt, j)) + (j * j)) % 256])

\* the KEM key pairs the key server has generated, by number
KemIds == {1, 2}
PublicKey(n) == <<80, 75, n>>
PrivateKey(n) == <<83, 75, n>>

\* kyber_kem_encrypt_512(public_key): (kem_ciphertext, shared_secret)
kyber_kem_encrypt_512(public_key, coins) ==
    [kem_ciphertext |-> <<67, public_key[3], coins>>,
     shared_secret |-> RandomBytes((16 * public_key[3]) + coins, 32)]

kyber_kem_decrypt_any(kem_ciphertext, private_key) ==
    RandomBytes((16 * kem_ciphertext[2]) + kem_ciphertext[3], 32)

\* kyber_kem_decrypt_512(kem_ciphertext, private_key): the shared secret, or
\* with a key of another pair an unrelated one (implicit rejection)
kyber_kem_decrypt_512(kem_ciphertext, private_key) ==
    IF private_key[3] = kem_ciphertext[2]
    THEN RandomBytes((16 * kem_ciphertext[2]) + kem_ciphertext[3], 32)
    ELSE RandomBytes(128 + (16 * private_key[3]) + kem_ciphertext[3], 32)

(***************************************************************************)
(* crypto_services.py: CryptoService.encrypt and CryptoService.decrypt.    *)
(***************************************************************************)
\* kwargs.get(name, default)
Get(kw, name, default) == IF name \in DOMAIN kw THEN kw[name] ELSE default

\* payload_dict of encrypt
payload_dict(main_body_bytes, attachments) ==
    [body |-> Utf8Decode(main_body_bytes),
     attachments |-> Bytes([j \in 1..Len(attachments) |->
                        [filename |-> attachments[j].filename,
                         content_b64 |-> B64Encode(attachments[j].content)]])]

AeadPayloadNoTag(aes_key, nonce, plaintext, extra) ==
    LET enc == GcmEncrypt(aes_key, nonce, plaintext)
        base == [ciphertext_b64 |-> B64Encode(enc.ciphertext),
                 nonce_b64 |-> B64Encode(nonce)]
    IN [f \in (DOMAIN base) \cup (DOMAIN extra) |->
          IF f \in DOMAIN extra THEN extra[f] ELSE base[f]]

\* the dictionary of an AES-GCM encryption, with the salt when there is one
AeadPayload(aes_key, nonce, plaintext, extra) ==
    LET enc == GcmEncrypt(aes_key, nonce, plaintext)
        base == [ciphertext_b64 |-> B64Encode(enc.ciphertext),
                 nonce_b64 |-> B64Encode(nonce),
                 auth_tag_b64 |-> B64Encode(enc.tag)]
    IN [f \in (DOMAIN base) \cup (DOMAIN extra) |->
          IF f \in DOMAIN extra THEN extra[f] ELSE base[f]]

\* the dictionary of a one-time-pad encryption
OtpPayload(plaintext, key) == [ciphertext_b64 |-> B64Encode(XorZip(plaintext, key))]

Level12Envelope(security_level, encryption_method, key_id, encrypted_payload) ==
    [qumail_version |-> "4.0", security_level |-> security_level,
     encryption_method |-> encryption_method, key_id |-> key_id,
     payload |-> encrypted_payload]

\* encrypt at level 3
EncryptLevel3(plaintext, kw, rnd) ==
    IF "recipient_public_key_b64" \notin DOMAIN kw THEN Error("KeyError")
    ELSE LET aes_key == RandomBytes(rnd, 32)
             nonce == RandomBytes(rnd + 1, 12)
             enc == GcmEncrypt(aes_key, nonce, plaintext)
             kem == kyber_kem_encrypt_512(B64Decode(kw.recipient_public_key_b64), rnd)
             encrypted_symmetric_key ==
                 XorZip(Ljust(aes_key, Len(kem.shared_secret)), kem.shared_secret)
         IN [qumail_version |-> "4.0", security_level |-> 3,
             kem_ciphertext_b64 |-> B64Encode(kem.kem_ciphertext),
             encrypted_symmetric_key_b64 |-> B64Encode(encrypted_symmetric_key),
             aes_payload |-> [nonce_b64 |-> B64Encode(nonce),
                              auth_tag_b64 |-> B64Encode(enc.tag),
                              ciphertext_b64 |-> B64Encode(enc.ciphertext)]]

QkdKeyGeneratedAnyway(i, kw) ==
    /\ kw.security_level \in {1, 2}
    /\ Get(kw, "encryption_method", "pqc") = "qkd"
    /\ qkd_client[i]

\* the qkd branch of encrypt reaches self.get_quantum_key and the simulator
\* generates a key
QkdKeyGenerated(i, kw) ==
    /\ kw.security_level \in {1, 2}
    /\ Get(kw, "encryption_method", "pqc") = "qkd"
    /\ ~Falsy(Get(kw, "recipient_email", None))
    /\ qkd_client[i]

\* encrypt at level 1 or 2 with the key the simulator returned
EncryptQkd(plaintext, kw, quantum_key_data, rnd) ==
    LET quantum_key_hex == quantum_key_data.key_hex
        quantum_key == FromHex(quantum_key_hex)
    IN IF kw.security_level = 2
       THEN LET salt == RandomBytes(rnd + 2, 16)
                aes_key == derive_aes_key_from_quantum(quantum_key_hex, salt)
            IN Level12Envelope(2, "qkd", quantum_key_data.key_id,
                   AeadPayload(aes_key, RandomBytes(rnd + 1, 12), plaintext,
                               [salt_b64 |-> B64Encode(salt)]))
       ELSE IF Len(quantum_key) < Len(plaintext)
       THEN Error("EncryptionError")
       ELSE Level12Envelope(1, "qkd", quantum_key_data.key_id,
                            OtpPayload(plaintext, quantum_key))

\* encrypt at level 1 or 2 with the key the caller passes (key_id, key_hex)
EncryptPqc(plaintext, kw, rnd) ==
    IF "key_hex" \notin DOMAIN kw \/ "key_id" \notin DOMAIN kw THEN Error("KeyError")
    ELSE LET key == FromHex(kw.key_hex) IN
         IF kw.security_level = 2
         THEN LET aes_key == SubSeq(key, 1, Min(32, Len(key))) IN
              IF ~AesKeyValid(aes_key) THEN Error("ValueError")
              ELSE Level12Envelope(2, "pqc", kw.key_id,
                       AeadPayload(aes_key, RandomBytes(rnd + 1, 12), plaintext, << >>))
         ELSE IF Len(key) < Len(plaintext)
         THEN Error("EncryptionError")
         ELSE Level12Envelope(1, "pqc", kw.key_id, OtpPayload(plaintext, key))

\* what CryptoService.encrypt returns or raises; quantum_key_data is the
\* record of the key generated for it when QkdKeyGenerated
EncryptResult(i, main_body_bytes, attachments, kw, quantum_key_data, rnd) ==
    LET pd == payload_dict(main_body_bytes, attachments)
        plaintext_payload_bytes == JsonDumps(pd)
    IN IF kw.security_level = 4
       THEN [qumail_version |-> "4.0", security_level |-> 4, plaintext_payload |-> pd]
       ELSE IF kw.security_level = 3
       THEN EncryptLevel3(plaintext_payload_bytes, kw, rnd)
       ELSE IF Get(kw, "encryption_method", "pqc") = "qkd"
       THEN IF QkdKeyGenerated(i, kw)
            THEN EncryptQkd(plaintext_payload_bytes, kw, quantum_key_data, rnd)
            ELSE Error("EncryptionError")
       ELSE EncryptPqc(plaintext_payload_bytes, kw, rnd)

\* len(plaintext_payload_bytes) of encrypt
PayloadSize(main_body_bytes, attachments) ==
    Len(JsonDumps(payload_dict(main_body_bytes, attachments)))

\* the key the simulator generates for a qkd encrypt: key_length_bytes is
\* len(plaintext_payload_bytes)
EncryptQuantumKey(main_body_bytes, attachments, kw) ==
    KeyMetadata(FreshId(QkdKeyIds \ UsedQkdIds),
                PayloadSize(main_body_bytes, attachments),
                Get(kw, "recipient_email", None))

\* the effect of encrypt on the simulator and the directory
EncryptEffect(i, main_body_bytes, attachments, kw, put) ==
    IF QkdKeyGenerated(i, kw)
    THEN /\ UsedQkdIds # QkdKeyIds
         /\ QkdNewKey(i, EncryptQuantumKey(main_body_bytes, attachments, kw), put)
    ELSE UNCHANGED qkdVars

\* the message in flight made of an envelope and what it was made from
InFlight(data, body, attachments, kw, is_sent) ==
    [data |-> data, original |-> data, body |-> body, attachments |-> attachments,
     key_hex |-> Get(kw, "key_hex", << >>),
     public_key_b64 |-> Get(kw, "recipient_public_key_b64", << >>),
     sent |-> is_sent, requested_level |-> kw.security_level]

\* CryptoService.encrypt(main_body_bytes, attachments, **kwargs)
encrypt(i, body, attachments, kw, rnd, put) ==
    LET main_body_bytes == Utf8Encode(body)
        quantum_key_data == EncryptQuantumKey(main_body_bytes, attachments, kw)
        result == EncryptResult(i, main_body_bytes, attachments, kw, quantum_key_data, rnd)
    IN /\ EncryptEffect(i, main_body_bytes, attachments, kw, put)
       /\ envelope' = IF IsError(result) THEN envelope
                      ELSE InFlight(result, body, attachments, kw, FALSE)
       /\ outcome' = [op |-> "encrypt", inst |-> i,
                      security_level |-> kw.security_level,
                      encryption_method |-> Get(kw, "encryption_method", "pqc"),
                      status |-> IF IsError(result) THEN result.error ELSE "ok",
                      result |-> result,
                      put |-> put,
                      recipient_email |-> Get(kw, "recipient_email", None),
                      payload_size |-> PayloadSize(main_body_bytes, attachments),
                      requested |-> IF QkdKeyGenerated(i, kw)
                                    THEN quantum_key_data.key_length_bytes ELSE -1,
                      key_length |-> IF QkdKeyGenerated(i, kw)
                                     THEN Len(FromHex(quantum_key_data.key_hex))
                                     ELSE IF "key_hex" \in DOMAIN kw
                                     THEN Len(FromHex(kw.key_hex)) ELSE -1]
       /\ UNCHANGED <<pqc_public_keys, serverVars, kemVars, lookup>>

\* the attachments of a decrypted payload with their decoded content
WithContent(payload) ==
    IF "attachments" \notin DOMAIN payload THEN payload
    ELSE [payload EXCEPT !.attachments =
            Bytes([j \in 1..Len(@) |->
               [filename |-> @[j].filename, content_b64 |-> @[j].content_b64,
                content |-> B64Decode(@[j].content_b64)]])]

\* d[name] of a dictionary without one of the names raises KeyError
Lacks(d, names) == \E name \in names : name \notin DOMAIN d

\* an AES-GCM decryption as decrypt does it: InvalidTag becomes DecryptionError
AeadOpen(aes_key, aes_payload) ==
    IF Lacks(aes_payload, {"ciphertext_b64", "nonce_b64", "auth_tag_b64"})
    THEN Error("KeyError")
    ELSE IF ~AesKeyValid(aes_key) THEN Error("ValueError")
    ELSE LET r == GcmDecrypt(aes_key, B64Decode(aes_payload.nonce_b64),
                             B64Decode(aes_payload.ciphertext_b64),
                             B64Decode(aes_payload.auth_tag_b64))
         IN IF IsError(r) THEN Error("DecryptionError: tag verification failed") ELSE r

DecryptLevel3Unchecked(data, kw) ==
    LET given == Get(kw, "private_key_b64", << >>)
        private_key_b64 == IF given = << >> THEN B64Encode(PrivateKey(1)) ELSE given
    IN IF Lacks(data, {"aes_payload"}) THEN Error("KeyError")
       ELSE IF Lacks(data, {"kem_ciphertext_b64", "encrypted_symmetric_key_b64"})
       THEN Error("KeyError")
       ELSE LET kem_ciphertext == B64Decode(data.kem_ciphertext_b64)
                encrypted_symmetric_key == B64Decode(data.encrypted_symmetric_key_b64)
                shared_secret == kyber_kem_decrypt_512(kem_ciphertext,
                                                       B64Decode(private_key_b64))
                aes_key == XorZip(encrypted_symmetric_key, shared_secret)
            IN AeadOpen(aes_key, data.aes_payload)

\* decrypt at level 3: decrypted_payload_bytes or the error raised
DecryptLevel3(data, kw) ==
    LET private_key_b64 == Get(kw, "private_key_b64", << >>) IN
    IF Lacks(data, {"aes_payload"}) THEN Error("KeyError")
    ELSE IF private_key_b64 = << >>
    THEN Error("DecryptionError: missing private key")
    ELSE IF Lacks(data, {"kem_ciphertext_b64", "encrypted_symmetric_key_b64"})
    THEN Error("KeyError")
    ELSE LET kem_ciphertext == B64Decode(data.kem_ciphertext_b64)
             encrypted_symmetric_key == B64Decode(data.encrypted_symmetric_key_b64)
             shared_secret == kyber_kem_decrypt_512(kem_ciphertext, B64Decode(private_key_b64))
             aes_key == XorZip(encrypted_symmetric_key, shared_secret)
         IN AeadOpen(aes_key, data.aes_payload)

CryptoLookupUnguarded(i, key_id, get) ==
    IF IsError(QkdLookup(i, key_id, get)) THEN Error("EncryptionError")
    ELSE QkdLookup(i, key_id, get)

\* CryptoService.get_quantum_key_by_id as decrypt calls it
CryptoLookup(i, key_id, get) ==
    IF ~qkd_client[i] THEN Error("EncryptionError")
    ELSE IF IsError(QkdLookup(i, key_id, get)) THEN Error("EncryptionError")
    ELSE QkdLookup(i, key_id, get)

\* CryptoService.get_quantum_key(key_length_bytes, recipient_email): refused
\* without a client, else QKDService.get_quantum_key
CryptoService_get_quantum_key(i, key_length_bytes, recipient_email, put) ==
    /\ IF qkd_client[i]
       THEN /\ UsedQkdIds # QkdKeyIds
            /\ QkdNewKey(i, KeyMetadata(FreshId(QkdKeyIds \ UsedQkdIds),
                                        key_length_bytes, recipient_email), put)
       ELSE UNCHANGED qkdVars
    /\ outcome' = [op |-> "CryptoService.get_quantum_key", inst |-> i,
                   status |-> IF qkd_client[i] THEN "ok" ELSE "EncryptionError",
                   key_id |-> IF qkd_client[i] THEN FreshId(QkdKeyIds \ UsedQkdIds) ELSE 0]
    /\ UNCHANGED <<envelope, pqc_public_keys, serverVars, kemVars, lookup>>

\* CryptoService.get_quantum_key_by_id(key_id): refused without a client, else
\* QKDService.get_quantum_key_by_id, its QKDServiceError as EncryptionError
CryptoService_get_quantum_key_by_id(i, key_id, get) ==
    LET result == CryptoLookup(i, key_id, get) IN
    /\ cache' = IF IsError(result) THEN cache ELSE QkdLookupCache(i, key_id, get)
    /\ outcome' = [op |-> "CryptoService.get_quantum_key_by_id", inst |-> i,
                   status |-> IF IsError(result) THEN result.error ELSE "ok",
                   key_id |-> key_id]
    /\ UNCHANGED <<qkd_client, qkd_keys, clock, envelope, pqc_public_keys, serverVars, kemVars, lookup>>

\* decrypt at level 1 or 2, method qkd
DecryptQkd(i, data, get) ==
    IF Lacks(data, {"key_id"}) THEN Error("KeyError")
    ELSE
    LET quantum_key_data == CryptoLookup(i, data.key_id, get) IN
    IF IsError(quantum_key_data) THEN quantum_key_data
    ELSE IF Lacks(data, {"payload"}) THEN Error("KeyError")
    ELSE LET quantum_key_hex == quantum_key_data.key_hex
             quantum_key == FromHex(quantum_key_hex)
         IN IF data.security_level = 2
            THEN IF Lacks(data.payload, {"salt_b64"}) THEN Error("KeyError")
                 ELSE
                 AeadOpen(derive_aes_key_from_quantum(quantum_key_hex,
                                                      B64Decode(data.payload.salt_b64)),
                          data.payload)
            ELSE IF Lacks(data.payload, {"ciphertext_b64"}) THEN Error("KeyError")
            ELSE LET xor_ciphertext == B64Decode(data.payload.ciphertext_b64) IN
                 IF Len(quantum_key) < Len(xor_ciphertext)
                 THEN Error("DecryptionError: key shorter than ciphertext")
                 ELSE [plaintext |-> XorZip(xor_ciphertext, quantum_key)]

\* decrypt at level 1 or 2, method pqc: the key is the caller's key_hex
DecryptPqc(data, kw) ==
    IF "key_hex" \notin DOMAIN kw THEN Error("KeyError")
    ELSE IF Lacks(data, {"payload"}) THEN Error("KeyError")
    ELSE LET key == FromHex(kw.key_hex) IN
         IF data.security_level = 2
         THEN AeadOpen(SubSeq(key, 1, Min(32, Len(key))), data.payload)
         ELSE IF Lacks(data.payload, {"ciphertext_b64"}) THEN Error("KeyError")
         ELSE LET xor_ciphertext == B64Decode(data.payload.ciphertext_b64) IN
              IF Len(key) < Len(xor_ciphertext)
              THEN Error("DecryptionError: key shorter than ciphertext")
              ELSE [plaintext |-> XorZip(xor_ciphertext, key)]

\* what CryptoService.decrypt returns or raises
DecryptResult(i, data, kw, get) ==
    IF data.security_level = 4
    THEN WithContent(Get(data, "plaintext_payload", << >>))
    ELSE LET bytes == IF data.security_level = 3 THEN DecryptLevel3(data, kw)
                      ELSE IF Get(data, "encryption_method", "pqc") = "qkd"
                      THEN DecryptQkd(i, data, get)
                      ELSE DecryptPqc(data, kw)
         IN IF IsError(bytes) THEN bytes
            ELSE LET decrypted_payload == JsonLoads(bytes.plaintext) IN
                 IF ~decrypted_payload.ok THEN Error("JSONDecodeError")
                 ELSE WithContent(decrypted_payload.val)

\* the directory request of QKDService.get_quantum_key_by_id, made when the
\* key is not in the cache
QkdLookupCalls(i, key_id) ==
    IF ~qkd_client[i] \/ key_id \in DOMAIN cache[i] THEN << >>
    ELSE <<"GET /qkd_keys">>

\* level 3 through the key server's POST /decapsulate instead
DecryptCallsRemote(i, data, kw, get) ==
    IF data.security_level = 3
    THEN <<"POST /decapsulate", "AES-GCM">>
    ELSE << >>

\* the primitives and the remote services decrypt calls, in the order of the
\* code, up to its return or the error it raises
DecryptCalls(i, data, kw, get) ==
    IF data.security_level = 4 THEN << >>
    ELSE IF data.security_level = 3
    THEN IF Lacks(data, {"aes_payload"}) THEN << >>
         ELSE IF Get(kw, "private_key_b64", << >>) = << >> THEN << >>
         ELSE IF Lacks(data, {"kem_ciphertext_b64", "encrypted_symmetric_key_b64"})
         THEN << >>
         ELSE <<"kyber_kem_decrypt_512">>
              \o (IF Lacks(data.aes_payload,
                           {"ciphertext_b64", "nonce_b64", "auth_tag_b64"})
                  THEN << >> ELSE <<"AES-GCM">>)
    ELSE IF Get(data, "encryption_method", "pqc") = "qkd"
    THEN IF Lacks(data, {"key_id"}) THEN << >>
         ELSE QkdLookupCalls(i, data.key_id)
              \o (IF IsError(CryptoLookup(i, data.key_id, get)) THEN << >>
                  ELSE IF Lacks(data, {"payload"}) \/ data.security_level # 2 THEN << >>
                  ELSE IF Lacks(data.payload, {"salt_b64"}) THEN << >>
                  ELSE <<"PBKDF2">>
                       \o (IF Lacks(data.payload,
                                    {"ciphertext_b64", "nonce_b64", "auth_tag_b64"})
                           THEN << >> ELSE <<"AES-GCM">>))
    ELSE IF "key_hex" \notin DOMAIN kw \/ Lacks(data, {"payload"}) THEN << >>
    ELSE IF data.security_level # 2 THEN << >>
    ELSE IF Lacks(data.payload, {"ciphertext_b64", "nonce_b64", "auth_tag_b64"})
    THEN << >> ELSE <<"AES-GCM">>

\* the decrypting side holds the key material the envelope refers to
HasKeyMaterial(i, env, kw, get) ==
    IF env.original.security_level = 4 THEN TRUE
    ELSE IF env.original.security_level = 3
    THEN /\ Get(kw, "private_key_b64", << >>) # << >>
         /\ B64Decode(kw.private_key_b64)[3] = B64Decode(env.public_key_b64)[3]
    ELSE IF env.original.encryption_method = "qkd"
    THEN ~IsError(CryptoLookup(i, env.original.key_id, get))
    ELSE "key_hex" \in DOMAIN kw /\ kw.key_hex = env.key_hex

\* CryptoService.decrypt(json_string, **kwargs) on the message in flight
decrypt(i, kw, get) ==
    /\ envelope # NoEnvelope
    /\ "qumail_version" \in DOMAIN envelope.data
    /\ LET data == envelope.data
           result == DecryptResult(i, data, kw, get)
           by_qkd == data.security_level \in {1, 2}
                     /\ Get(data, "encryption_method", "pqc") = "qkd" /\ qkd_client[i]
                     /\ ~Lacks(data, {"key_id"})
       IN /\ cache' = IF by_qkd THEN QkdLookupCache(i, data.key_id, get) ELSE cache
          /\ outcome' = [op |-> "decrypt", inst |-> i,
                         status |-> IF IsError(result) THEN result.error ELSE "ok",
                         result |-> IF IsError(result) THEN NoPayload ELSE result,
                         material |-> HasKeyMaterial(i, envelope, kw, get),
                         kw |-> kw,
                         trace |-> DecryptCalls(i, data, kw, get)]
    /\ UNCHANGED <<qkd_client, qkd_keys, clock, envelope, pqc_public_keys, serverVars, kemVars, lookup>>

\* one bit of one byte flipped
FlipBit(bs, pos, mask) == [bs EXCEPT ![pos] = XorByte(@, mask)]

\* the places where the transport corrupts a field: the lowest bit of the
\* first byte, the highest bit of the last byte
FlipSpots == {"first", "last"}

Flipped(b64, spot) ==
    LET bs == B64Decode(b64) IN
    IF spot = "first"
    THEN B64Encode(FlipBit(bs, 1, 1))
    ELSE B64Encode(FlipBit(bs, Len(bs), 128))

\* The transport changes one bit of the ciphertext or of the tag of the
\* message in flight.
Tamper(field, spot) ==
    /\ envelope # NoEnvelope
    /\ "qumail_version" \in DOMAIN envelope.data
    /\ envelope.data = envelope.original
    /\ envelope.data.security_level \in {1, 2, 3}
    /\ LET data == envelope.data
           part == IF data.security_level = 3 THEN data.aes_payload ELSE data.payload
       IN /\ field \in DOMAIN part
          /\ envelope' = [envelope EXCEPT !.data =
                IF data.security_level = 3
                THEN [data EXCEPT !.aes_payload[field] = Flipped(@, spot)]
                ELSE [data EXCEPT !.payload[field] = Flipped(@, spot)]]
    /\ outcome' = [op |-> "tamper", field |-> field]
    /\ UNCHANGED <<qkdVars, pqc_public_keys, serverVars, kemVars, lookup>>

\* a dictionary without one of its members
Without(d, name) == [f \in (DOMAIN d) \ {name} |-> d[f]]

\* the members of an envelope and of its payload dictionary
EnvelopeFields == {"plaintext_payload", "encryption_method", "key_id", "payload",
                   "aes_payload", "kem_ciphertext_b64", "encrypted_symmetric_key_b64"}
PayloadFields == {"ciphertext_b64", "nonce_b64", "auth_tag_b64", "salt_b64"}

\* The message arrives without one member: decrypt is given the JSON text of
\* a mail, whatever its sender or the transport made of it.
DropField(field) ==
    /\ envelope # NoEnvelope
    /\ "qumail_version" \in DOMAIN envelope.data
    /\ envelope.data = envelope.original
    /\ LET data == envelope.data IN
         IF field \in EnvelopeFields
         THEN /\ field \in DOMAIN data
              /\ envelope' = [envelope EXCEPT !.data = Without(data, field)]
         ELSE IF data.security_level = 3
         THEN /\ field \in DOMAIN data.aes_payload
              /\ envelope' = [envelope EXCEPT !.data.aes_payload = Without(@, field)]
         ELSE /\ data.security_level \in {1, 2}
              /\ field \in DOMAIN data.payload
              /\ envelope' = [envelope EXCEPT !.data.payload = Without(@, field)]
    /\ outcome' = [op |-> "drop", field |-> field]
    /\ UNCHANGED <<qkdVars, pqc_public_keys, serverVars, kemVars, lookup>>

SelectionResultLegacy(i, data, kw, get) ==
    IF data.security_level \in {1, 2, 3}
    THEN DecryptResult(i, data, kw, get)
    ELSE Error("DecryptionError: no content")

\* decrypted_payload of handle_email_selection for a QuMail message, or the
\* error it raises; kw holds what the controller has at hand, the private
\* key of the settings and the key of the message, which it never asks for
SelectionResult(i, data, kw, get) ==
    IF data.security_level = 3 /\ kw.private_key_b64 = << >>
    THEN Error("DecryptionError: private key not found in settings")
    ELSE IF data.security_level \in {1, 2} /\ Get(data, "encryption_method", "pqc") # "qkd"
    THEN Error("DecryptionError: legacy pqc unsupported")
    ELSE IF data.security_level \in {1, 2, 3}
    THEN DecryptResult(i, data, Without(kw, "key_hex"), get)
    ELSE IF data.security_level = 4 /\ "plaintext_payload" \in DOMAIN data
    THEN data.plaintext_payload
    ELSE Error("DecryptionError: no content")

\* EmailController.handle_email_selection(uid) on the message in flight, a
\* QuMail message
handle_email_selection(i, get) ==
    /\ envelope # NoEnvelope
    /\ "qumail_version" \in DOMAIN envelope.data
    /\ LET data == envelope.data
           kw == [private_key_b64 |-> settings[IF i = "alice" THEN "alice@example.com"
                                               ELSE "bob@example.com"].pqc_private_key_b64,
                  key_hex |-> envelope.key_hex]
           result == SelectionResult(i, data, kw, get)
           by_qkd == data.security_level \in {1, 2}
                     /\ Get(data, "encryption_method", "pqc") = "qkd" /\ qkd_client[i]
                     /\ ~Lacks(data, {"key_id"})
       IN /\ cache' = IF by_qkd THEN QkdLookupCache(i, data.key_id, get) ELSE cache
          /\ outcome' = [op |-> "handle_email_selection", inst |-> i,
                         status |-> IF IsError(result) THEN result.error ELSE "ok",
                         displayed |-> IF IsError(result) THEN NoPayload ELSE result]
    /\ UNCHANGED <<qkd_client, qkd_keys, clock, envelope, pqc_public_keys, serverVars, kemVars, lookup>>

(***************************************************************************)
(* The remote calls of CryptoService and email_controller.py.              *)
(***************************************************************************)
\* what the network and the key manager make of one request: an answer, no
\* answer in time, a refused connection, a 5xx status, a body that is not
\* JSON, a JSON body without the members
KmOutcomes == {"ok", "timeout", "refused", "status", "malformed", "empty"}

\* the exception that client.get, raise_for_status, response.json and the
\* subscripts of the answer raise for such a request
HttpxError(net) ==
    IF net = "timeout" THEN "httpx.TimeoutException"
    ELSE IF net = "refused" THEN "httpx.ConnectError"
    ELSE IF net = "status" THEN "httpx.HTTPStatusError"
    ELSE IF net = "malformed" THEN "JSONDecodeError"
    ELSE "KeyError"

\* KMClient.fetch_key(key_id_to_fetch): one GET; every exception, the
\* KeyManagerError of an answer without keys included, ends as KeyManagerError
fetch_key(key_id_to_fetch, net, seed) ==
    /\ outcome' = [op |-> "fetch_key", key_id |-> key_id_to_fetch, net |-> net,
                   requests |-> <<"GET /api/v1/keys/enc_keys">>,
                   status |-> IF net = "ok" THEN "ok" ELSE "KeyManagerError",
                   key_hex |-> IF net = "ok" THEN Hex(RandomBytes(seed, 32)) ELSE << >>]
    /\ UNCHANGED <<qkdVars, envelope, pqc_public_keys, serverVars, kemVars, lookup>>

\* CryptoService.get_symmetric_key(key_length_bytes): the request and the
\* server's handler; the exceptions of httpx and of the subscripts pass through
CryptoService_get_symmetric_key(key_length_bytes, seed, net) ==
    /\ IF net = "ok"
       THEN get_symmetric_key(key_length_bytes, seed)
       ELSE UNCHANGED serverVars
    /\ outcome' = [op |-> "get_symmetric_key", net |-> net,
                   requests |-> <<"GET /get-symmetric-key">>,
                   status |-> IF net = "ok" THEN "ok" ELSE HttpxError(net),
                   key_id |-> IF net = "ok" THEN FreshId(SymKeyIds \ issued) ELSE 0,
                   key_length_bytes |-> key_length_bytes]
    /\ UNCHANGED <<qkdVars, envelope, pqc_public_keys, kemVars, lookup>>

\* CryptoService.get_symmetric_key_by_id(key_id): the request and the server's
\* handler, run from SELECT to commit; a 404 raises HTTPStatusError
CryptoService_get_symmetric_key_by_id(key_id, net) ==
    LET result == IF net = "ok" THEN SelectRow(symmetric_keys, key_id) ELSE NoRow IN
    /\ symmetric_keys' = IF result = NoRow THEN symmetric_keys
                         ELSE DeleteRow(symmetric_keys, key_id)
    /\ retrieved' = IF result = NoRow THEN retrieved
                    ELSE [retrieved EXCEPT ![key_id] = @ + 1]
    /\ outcome' = [op |-> "get_symmetric_key_by_id", key_id |-> key_id, net |-> net,
                   requests |-> <<"GET /get-symmetric-key-by-id">>,
                   status |-> IF net # "ok" THEN HttpxError(net)
                              ELSE IF result = NoRow THEN "httpx.HTTPStatusError"
                              ELSE "ok",
                   key_hex |-> IF result = NoRow THEN << >> ELSE result[1]]
    /\ UNCHANGED <<issued, req, qkdVars, envelope, pqc_public_keys, kemVars, lookup>>

\* FirebaseDirectory.publish_public_key(email, public_key_b64): the PUT
publish_public_key(email, n) ==
    /\ pqc_public_keys' = InsertRow(pqc_public_keys, email,
                                    [public_key_b64 |-> B64Encode(PublicKey(n))])
    /\ outcome' = [op |-> "publish_public_key", email |-> email]
    /\ UNCHANGED <<qkdVars, envelope, serverVars, kemVars, lookup>>

\* the users of the two installations
Users == {"alice@example.com", "bob@example.com"}

\* the settings of an installation that has not saved any
NoSettings == [email_address |-> "", imap_host |-> "", password |-> "",
               pqc_public_key_b64 |-> << >>, pqc_private_key_b64 |-> << >>]

\* kem.generate_keypair() / kem.export_secret_key(): pair number n, encoded
KemKeyPair(n) == [publicKey_b64 |-> B64Encode(PublicKey(n)),
                  privateKey_b64 |-> B64Encode(PrivateKey(n))]

\* cur.execute("INSERT OR REPLACE INTO pqc_keys ...")
InsertOrReplaceRow(table, userId, row) ==
    [u \in (DOMAIN table) \cup {userId} |-> IF u = userId THEN row ELSE table[u]]

\* the effect of POST /generate-keys on the key server
GenerateKeys(userId) ==
    /\ kem_generated # KemPairIds
    /\ LET n == FreshId(KemPairIds \ kem_generated) IN
         /\ pqc_keys' = InsertOrReplaceRow(pqc_keys, userId, KemKeyPair(n))
         /\ kem_generated' = kem_generated \cup {n}

\* POST /generate-keys {userId}
generate_keys(userId) ==
    /\ GenerateKeys(userId)
    /\ outcome' = [op |-> "generate_keys", userId |-> userId, status |-> "ok",
                   before |-> SelectRow(pqc_keys, userId),
                   pair |-> KemKeyPair(FreshId(KemPairIds \ kem_generated))]
    /\ UNCHANGED <<qkdVars, envelope, pqc_public_keys, symmetric_keys, issued, req,
                   retrieved, calls, settings, lookup>>

SettingsAfterEager(old, email, password, imap_host, post, key_data) ==
    [email_address |-> email, imap_host |-> imap_host,
     password |-> IF password = "" THEN old.password ELSE password,
     pqc_public_key_b64 |-> IF post = "ok" THEN key_data.publicKey_b64
                            ELSE old.pqc_public_key_b64,
     pqc_private_key_b64 |-> IF post = "ok" THEN key_data.privateKey_b64
                             ELSE old.pqc_private_key_b64]

\* what save_settings leaves in config.ini and in the keyring: the file and
\* the password are written after the key request has succeeded
SettingsAfter(old, email, password, imap_host, post, key_data) ==
    IF post = "ok"
    THEN [email_address |-> email, imap_host |-> imap_host,
          password |-> IF password = "" THEN old.password ELSE password,
          pqc_public_key_b64 |-> key_data.publicKey_b64,
          pqc_private_key_b64 |-> key_data.privateKey_b64]
    ELSE old

\* SettingsManager.save_settings(email, password, imap_host, ...): the POST to
\* /generate-keys, the private key into the keyring, the public key to the
\* directory (a failure there is logged and dropped), the configuration file
\* and the password; a request that times out may have been served
save_settings(email, password, imap_host, post, put) ==
    LET key_data == KemKeyPair(FreshId(KemPairIds \ kem_generated)) IN
    /\ IF post \in {"ok", "timeout"}
       THEN GenerateKeys(email)
       ELSE UNCHANGED <<pqc_keys, kem_generated>>
    /\ settings' = [settings EXCEPT ![email] =
                      SettingsAfter(@, email, password, imap_host, post, key_data)]
    /\ pqc_public_keys' =
           IF post = "ok" /\ put = "ok"
           THEN InsertRow(pqc_public_keys, email,
                          [public_key_b64 |-> key_data.publicKey_b64])
           ELSE pqc_public_keys
    /\ outcome' = [op |-> "save_settings", userId |-> email, post |-> post,
                   status |-> IF post = "ok" THEN "ok"
                              ELSE IF post \in {"timeout", "refused", "status"}
                              THEN "KeyGenerationError"
                              ELSE HttpxError(post),
                   before |-> SelectRow(pqc_keys, email), put |-> put,
                   password |-> password, imap_host |-> imap_host]
    /\ UNCHANGED <<qkdVars, envelope, symmetric_keys, issued, req, retrieved, calls, lookup>>

\* FirebaseDirectory.fetch_public_key(email): None on any failure
fetch_public_key(email, net) ==
    IF net = "ok" /\ email \in DOMAIN pqc_public_keys
    THEN pqc_public_keys[email].public_key_b64
    ELSE << >>

\* payload_size of handle_send_email
SendPayloadSize(body, attachments) ==
    Len(Utf8Encode(JsonDumps(
        [body |-> body,
         attachments |-> Bytes([j \in 1..Len(attachments) |->
                            [filename |-> attachments[j].filename,
                             content_b64 |-> B64Encode(attachments[j].content)]])])))

\* the remote call of a send that fails, if one does; "short key" is a key
\* manager that answers with a key of one byte
SendFailures == {"none", "directory", "key manager", "short key", "publication", "smtp"}

SendKeyLengthOfBody(body, attachments, security_level) == Len(body)

\* key_length of handle_send_email
SendKeyLength(body, attachments, security_level) ==
    IF security_level = 1 THEN SendPayloadSize(body, attachments) ELSE 32

\* the length of the key the key manager answers with
IssuedKeyLength(body, attachments, security_level, fail) ==
    IF fail = "short key" THEN 1 ELSE SendKeyLength(body, attachments, security_level)

\* the keyword arguments handle_send_email passes to encrypt, or the error
\* raised before encrypt is called
SendKwargs(to_addr, body, attachments, security_level, encryption_method, fail, seed) ==
    IF security_level = 3
    THEN LET recipient_public_key_b64 ==
                 fetch_public_key(to_addr, IF fail = "directory" THEN "fail" ELSE "ok")
         IN IF recipient_public_key_b64 = << >> THEN Error("EncryptionError")
            ELSE [security_level |-> 3,
                  recipient_public_key_b64 |-> recipient_public_key_b64]
    ELSE IF encryption_method = "qkd"
    THEN [security_level |-> security_level, encryption_method |-> "qkd",
          recipient_email |-> to_addr]
    ELSE IF Len(attachments) > 0 THEN Error("NameError")
    ELSE IF fail = "key manager" THEN Error("HTTPError")
    ELSE LET key_length == IssuedKeyLength(body, attachments, security_level, fail)
             key_id == FreshId(SymKeyIds \ issued)
         IN [security_level |-> security_level, encryption_method |-> "pqc",
             key_id |-> key_id,
             key_hex |-> Hex(RandomBytes(seed + key_id, key_length))]

\* the send asks the key manager for a key
SendRequestsKey(attachments, security_level, encryption_method, fail) ==
    /\ security_level \in {1, 2}
    /\ encryption_method # "qkd"
    /\ Len(attachments) = 0
    /\ fail # "key manager"

mail_or_plaintext(final_body, body) ==
    IF IsError(final_body) THEN [plain |-> body] ELSE final_body

\* the body handle_send_email hands to smtp_handler.send_email, an error
\* raised on the way leaving nothing to hand over
mail_to_send(final_body, body) ==
    IF IsError(final_body) THEN NoEnvelope ELSE final_body

\* EmailController.handle_send_email(to_addr, subject, body, attachments,
\* security_level, encryption_method)
handle_send_email(i, to_addr, body, attachments, security_level, encryption_method, fail, seed) ==
    LET main_body_bytes == Utf8Encode(body)
        requests_key == SendRequestsKey(attachments, security_level, encryption_method, fail)
        kw == IF security_level = 4 THEN [security_level |-> 4]
              ELSE SendKwargs(to_addr, body, attachments, security_level,
                              encryption_method, fail, seed)
        put == IF fail = "publication" THEN "fail" ELSE "ok"
        encrypted == IF security_level = 4 THEN [plain |-> body]
                     ELSE IF IsError(kw) THEN kw
                     ELSE EncryptResult(i, main_body_bytes, attachments, kw,
                              EncryptQuantumKey(main_body_bytes, attachments, kw), seed)
        final_body == IF ~IsError(encrypted) /\ fail = "smtp"
                      THEN Error("EmailServiceError") ELSE encrypted
        mail == mail_to_send(final_body, body)
    IN /\ IF requests_key
          THEN /\ issued # SymKeyIds
               /\ get_symmetric_key(IssuedKeyLength(body, attachments,
                                                    security_level, fail), seed)
          ELSE UNCHANGED serverVars
       /\ IF security_level \in {1, 2, 3} /\ ~IsError(kw)
          THEN EncryptEffect(i, main_body_bytes, attachments, kw, put)
          ELSE UNCHANGED qkdVars
       /\ envelope' = IF mail = NoEnvelope THEN envelope
                      ELSE InFlight(mail, body, attachments,
                                    [f \in (DOMAIN kw) \cup {"security_level"} |->
                                       IF f = "security_level" THEN security_level
                                       ELSE kw[f]], TRUE)
       /\ outcome' = [op |-> "handle_send_email", inst |-> i,
                      security_level |-> security_level,
                      encryption_method |-> encryption_method,
                      ok |-> ~IsError(final_body),
                      reported |-> IsError(final_body),
                      status |-> IF IsError(final_body) THEN final_body.error ELSE "ok",
                      mail |-> mail,
                      encrypted |-> encrypted,
                      payload_size |-> PayloadSize(main_body_bytes, attachments),
                      key_length |-> IF ~IsError(kw) /\ "key_hex" \in DOMAIN kw
                                     THEN Len(FromHex(kw.key_hex))
                                     ELSE IF ~IsError(kw) /\ security_level \in {1, 2}
                                             /\ QkdKeyGenerated(i, kw)
                                     THEN Len(FromHex(EncryptQuantumKey(main_body_bytes,
                                                  attachments, kw).key_hex))
                                     ELSE -1,
                      requested |-> IF requests_key
                                    THEN SendKeyLength(body, attachments, security_level)
                                    ELSE IF ~IsError(kw) /\ security_level \in {1, 2}
                                            /\ QkdKeyGenerated(i, kw)
                                    THEN PayloadSize(main_body_bytes, attachments)
                                    ELSE -1]
       /\ UNCHANGED <<pqc_public_keys, kemVars, lookup>>

(***************************************************************************)
(* The inputs of the calls.                                                *)
(***************************************************************************)
\* bodies (code points) and attachment lists of the messages
Payloads ==
    {[body |-> <<104, 105>>, attachments |-> << >>],
     [body |-> <<233>>,
      attachments |-> <<[filename |-> <<97>>, content |-> <<1, 255>>]>>]}

Email == "bob@example.com"
PqcKeyLengths == {1, 32}

\* key_hex arguments a caller of decrypt may pass: a key the server issued
KeyHexArgs ==
    {Hex(RandomBytes(5, 32))}
    \cup (IF envelope # NoEnvelope /\ envelope.key_hex # << >>
          THEN {envelope.key_hex} ELSE {})

\* private_key_b64 arguments a caller of decrypt may pass: the setting of an
\* installation without a key (empty) or the private key of a pair
PrivateKeyArgs == {<< >>} \cup {B64Encode(PrivateKey(n)) : n \in KemIds}

\* The state after construction: an empty symmetric_keys table, idle workers,
\* QKDService.__init__ (no client, an empty cache), an empty directory and no
\* message.
Init ==
    /\ symmetric_keys = << >>
    /\ issued = {}
    /\ req = [w \in Workers |-> IdleReq]
    /\ retrieved = [k \in SymKeyIds |-> 0]
    /\ qkd_client = [i \in Instances |-> FALSE]
    /\ cache = [i \in Instances |-> << >>]
    /\ qkd_keys = << >>
    /\ clock = 0
    /\ envelope = NoEnvelope
    /\ outcome = NoCall
    /\ pqc_public_keys = << >>
    /\ calls = 0
    /\ pqc_keys = << >>
    /\ kem_generated = {}
    /\ settings = [u \in Users |-> NoSettings]
    /\ lookup = [c \in Callers |-> IdleLookup]

\* the other parts of the state, for the actions of one part
serverOnly == <<qkdVars, clientVars, calls>>

KeyServerNext ==
    \/ \E n \in ServerKeyLengths, seed \in Seeds :
         CryptoService_get_symmetric_key(n, seed, "ok") /\ UNCHANGED calls
    \/ \E w \in Workers, k \in SymKeyIds :
         ByIdArrive(w, k) /\ UNCHANGED serverOnly
    \/ \E w \in Workers : ByIdSelect(w) /\ UNCHANGED serverOnly
    \/ \E w \in Workers : ByIdDelete(w) /\ UNCHANGED serverOnly
    \/ \E w \in Workers : ByIdCommit(w) /\ UNCHANGED serverOnly
    \/ \E w \in Workers : ByIdRespond(w) /\ UNCHANGED serverOnly

\* The key server under concurrent requests: its handlers run on pool threads
\* and interleave statement by statement on the shared connection.
SpecKeyServer == Init /\ [][KeyServerNext]_vars

\* C1: under any interleaving of concurrent retrieve-by-id requests for one
\* key_id, at most one request returns the key material.
C1_AtMostOneRetrieval == \A k \in SymKeyIds : retrieved[k] <= 1

\* C2: once a retrieve-by-id for a key_id has completed successfully, every
\* later retrieve-by-id for that key_id ends with 404.
C2_LaterRetrievalNotFound ==
    \A w \in Workers :
        (req[w].pc = "done" /\ req[w].after) => req[w].status = 404

C2_Witness ==
    \E w \in Workers :
        /\ req[w].pc = "done" /\ req[w].after /\ req[w].status = 404
        /\ req[w].key_id \in issued
        /\ \E k \in issued \ {req[w].key_id} : retrieved[k] > 0

\* one more encrypt / handle_send_email call of the run
Counted == calls < MaxCalls /\ calls' = calls + 1

\* keys a caller of encrypt passes with method pqc, and the key ids it names
CallerKeys == {Hex(RandomBytes(3, n)) : n \in PqcKeyLengths}
CallerKeyIds == {1}

\* the installation that writes the messages
Senders == {"alice"}

Next ==
    \/ \E i \in Instances : initialize(i) /\ UNCHANGED calls
    \/ \E i \in Senders, p \in Payloads :
         /\ Counted
         /\ encrypt(i, p.body, p.attachments, [security_level |-> 4], 3, "ok")
    \/ \E i \in Senders, p \in Payloads, n \in KemIds :
         /\ Counted
         /\ encrypt(i, p.body, p.attachments,
                    [security_level |-> 3,
                     recipient_public_key_b64 |-> B64Encode(PublicKey(n))], 3, "ok")
    \/ \E i \in Senders, p \in Payloads, level \in {1, 2},
          r \in Recipients, put \in NetOutcomes :
         /\ Counted
         /\ encrypt(i, p.body, p.attachments,
                    [security_level |-> level, encryption_method |-> "qkd",
                     recipient_email |-> r], 3, put)
    \/ \E i \in Senders, p \in Payloads, level \in {1, 2},
          k \in CallerKeyIds, key_hex \in CallerKeys :
         /\ Counted
         /\ encrypt(i, p.body, p.attachments,
                    [security_level |-> level, encryption_method |-> "pqc",
                     key_id |-> k, key_hex |-> key_hex], 3, "ok")
    \/ \E i \in Instances, get \in NetOutcomes :
         decrypt(i, << >>, get) /\ UNCHANGED calls
    \/ \E i \in Instances, private_key_b64 \in PrivateKeyArgs :
         decrypt(i, [private_key_b64 |-> private_key_b64], "ok")
         /\ UNCHANGED calls
    \/ \E i \in Instances, key_hex \in KeyHexArgs :
         decrypt(i, [key_hex |-> key_hex], "ok") /\ UNCHANGED calls
    \/ \E field \in {"ciphertext_b64", "auth_tag_b64"}, spot \in FlipSpots :
         Tamper(field, spot) /\ UNCHANGED calls

\* CryptoService.encrypt and decrypt called with the caller's key material, and
\* the transport between them.
Spec == Init /\ [][Next]_vars

SendNext ==
    \/ \E i \in Instances : initialize(i) /\ UNCHANGED calls
    \/ \E n \in KemIds : publish_public_key(Email, n) /\ UNCHANGED calls
    \/ \E to_addr \in {"", Email}, p \in Payloads, level \in 1..4,
          method \in {"qkd", "pqc"}, fail \in SendFailures :
         /\ Counted
         /\ \E i \in Senders :
              handle_send_email(i, to_addr, p.body, p.attachments, level,
                                method, fail, 3)
    \/ \E k \in SymKeyIds :
         CryptoService_get_symmetric_key_by_id(k, "ok") /\ UNCHANGED calls
    \/ \E i \in Instances, get \in NetOutcomes :
         decrypt(i, << >>, get) /\ UNCHANGED calls
    \/ \E i \in Instances, key_hex \in KeyHexArgs :
         decrypt(i, [key_hex |-> key_hex], "ok") /\ UNCHANGED calls

\* The controller sending mail through the directory, the key manager and the
\* simulator, and the recipient opening what was sent.
SpecSend == Init /\ [][SendNext]_vars

ParseNext ==
    \/ \E i \in Instances : initialize(i) /\ UNCHANGED calls
    \/ \E i \in Senders, p \in Payloads :
         /\ Counted
         /\ encrypt(i, p.body, p.attachments, [security_level |-> 4], 3, "ok")
    \/ \E i \in Senders, p \in Payloads :
         /\ Counted
         /\ encrypt(i, p.body, p.attachments,
                    [security_level |-> 3,
                     recipient_public_key_b64 |-> B64Encode(PublicKey(1))], 3, "ok")
    \/ \E i \in Senders, p \in Payloads, level \in {1, 2} :
         /\ Counted
         /\ encrypt(i, p.body, p.attachments,
                    [security_level |-> level, encryption_method |-> "qkd",
                     recipient_email |-> Email], 3, "ok")
    \/ \E i \in Senders, p \in Payloads, level \in {1, 2}, k \in CallerKeyIds :
         /\ Counted
         /\ encrypt(i, p.body, p.attachments,
                    [security_level |-> level, encryption_method |-> "pqc",
                     key_id |-> k, key_hex |-> Hex(RandomBytes(3, 32))], 3, "ok")
    \/ \E field \in EnvelopeFields \cup PayloadFields :
         DropField(field) /\ UNCHANGED calls
    \/ \E i \in Instances : decrypt(i, << >>, "ok") /\ UNCHANGED calls
    \/ \E i \in Instances :
         decrypt(i, [private_key_b64 |-> B64Encode(PrivateKey(1))], "ok")
         /\ UNCHANGED calls
    \/ \E i \in Instances, key_hex \in KeyHexArgs :
         decrypt(i, [key_hex |-> key_hex], "ok") /\ UNCHANGED calls

\* CryptoService.decrypt given messages that lack a member.
SpecParse == Init /\ [][ParseNext]_vars

ReceiveNext ==
    \/ \E i \in Instances : initialize(i) /\ UNCHANGED calls
    \/ \E p \in Payloads, level \in 1..4, method \in {"qkd", "pqc"},
          fail \in {"none", "publication"} :
         /\ Counted
         /\ \E i \in Senders :
              handle_send_email(i, Email, p.body, p.attachments, level, method, fail, 3)
    \/ DropField("encryption_method") /\ UNCHANGED calls
    \/ \E i \in Instances, get \in NetOutcomes :
         handle_email_selection(i, get) /\ UNCHANGED calls
    \/ \E k \in SymKeyIds :
         CryptoService_get_symmetric_key_by_id(k, "ok") /\ UNCHANGED calls

\* The controller of the recipient opening the mail that was sent, whole or
\* without its encryption_method.
SpecReceive == Init /\ [][ReceiveNext]_vars

DeriveNext ==
    \E key_id \in QkdKeyIds, key_length \in 0..MaxKeyLength :
        MockQKDClient_get_deterministic_key(key_id, key_length) /\ UNCHANGED calls

\* The derivation of the simulator applied to every key id and length.
SpecDerive == Init /\ [][DeriveNext]_vars

KmNext ==
    \/ \E k \in {0} \cup SymKeyIds, net \in KmOutcomes, seed \in Seeds :
         fetch_key(k, net, seed) /\ UNCHANGED calls
    \/ \E n \in ServerKeyLengths, seed \in Seeds, net \in KmOutcomes :
         CryptoService_get_symmetric_key(n, seed, net) /\ UNCHANGED calls
    \/ \E k \in SymKeyIds, net \in KmOutcomes :
         CryptoService_get_symmetric_key_by_id(k, net) /\ UNCHANGED calls

\* The clients of the key manager, one call after the other, over a network
\* that fails.
SpecKm == Init /\ [][KmNext]_vars

KemNext ==
    \/ \E u \in Users : generate_keys(u)
    \/ \E u \in Users, post \in KmOutcomes, put \in NetOutcomes,
          form \in {[password |-> "pw1", imap_host |-> "imap.a"],
                    [password |-> "pw2", imap_host |-> "imap.b"]} :
         save_settings(u, form.password, form.imap_host, post, put)

\* The key pairs: the key server's /generate-keys and the installations that
\* save their settings.
SpecKem == Init /\ [][KemNext]_vars

QkdNext ==
    \/ \E i \in Instances : initialize(i) /\ UNCHANGED calls
    \/ \E i \in Instances : close(i) /\ UNCHANGED calls
    \/ \E i \in Instances, n \in QkdKeyLengths, r \in Recipients, put \in NetOutcomes :
         get_quantum_key(i, n, r, put) /\ UNCHANGED calls
    \/ \E i \in Instances, k \in QkdKeyIds, get \in NetOutcomes :
         get_quantum_key_by_id(i, k, get) /\ UNCHANGED calls
    \/ \E i \in Instances, n \in QkdKeyLengths, r \in Recipients, put \in NetOutcomes :
         CryptoService_get_quantum_key(i, n, r, put) /\ UNCHANGED calls
    \/ \E i \in Instances, k \in QkdKeyIds, get \in NetOutcomes :
         CryptoService_get_quantum_key_by_id(i, k, get) /\ UNCHANGED calls

\* The simulator called directly by the installations.
SpecQkd == Init /\ [][QkdNext]_vars

RaceNext ==
    \/ \E i \in Instances : initialize(i) /\ UNCHANGED calls
    \/ \E i \in Instances : close(i) /\ UNCHANGED calls
    \/ \E i \in Senders, n \in QkdKeyLengths, put \in NetOutcomes :
         get_quantum_key(i, n, Email, put) /\ UNCHANGED calls
    \/ \E c \in Callers, i \in Instances \ Senders, k \in QkdKeyIds :
         LookupStart(c, i, k) /\ UNCHANGED calls
    \/ \E c \in Callers, get \in NetOutcomes : LookupFetch(c, get) /\ UNCHANGED calls
    \/ \E c \in Callers : LookupFinish(c) /\ UNCHANGED calls

\* The coroutines of the installations inside get_quantum_key_by_id: they
\* interleave at the await of the directory request.
SpecRace == Init /\ [][RaceNext]_vars

C7_Rederivable ==
    (/\ outcome.op = "get_quantum_key_by_id"
     /\ outcome.initialized /\ ~outcome.hit /\ outcome.get = "ok"
     /\ \E j \in Instances \ {outcome.inst} :
          /\ outcome.key_id \in DOMAIN cache[j]
          /\ ~Falsy(cache[j][outcome.key_id].recipient_email))
    => /\ ~IsError(outcome.result)
       /\ \A j \in Instances :
            outcome.key_id \in DOMAIN cache[j]
            => cache[j][outcome.key_id].key_hex = outcome.result.key_hex

SameContent(payload, env) ==
    /\ DOMAIN payload = {"body", "attachments"}
    /\ payload.body = env.body
    /\ Len(payload.attachments) = Len(env.attachments)
    /\ \A j \in 1..Len(env.attachments) :
         /\ payload.attachments[j].filename = env.attachments[j].filename
         /\ payload.attachments[j].content = env.attachments[j].content

\* C3: at every level and with either method, decrypt applied to the envelope
\* encrypt returned, by a caller that holds the key material the envelope
\* refers to, returns the original body and the original attachment contents.
C3_RoundTrip ==
    (/\ outcome.op = "decrypt"
     /\ outcome.material
     /\ envelope.data = envelope.original)
    => /\ outcome.status = "ok"
       /\ SameContent(outcome.result, envelope)

C3_Witness ==
    /\ outcome.op = "decrypt" /\ outcome.material /\ outcome.status = "ok"
    /\ outcome.inst = "bob"
    /\ envelope.data = envelope.original
    /\ envelope.data.security_level = 1
    /\ envelope.data.encryption_method = "qkd"
    /\ Len(envelope.attachments) > 0
    /\ SameContent(outcome.result, envelope)

\* C4: once a bit of the ciphertext or of the tag of a level-2 or level-3
\* envelope has changed, decrypt returns no payload, and with the right key
\* material it fails with the DecryptionError of a failed tag verification.
C4_TamperDetected ==
    (/\ outcome.op = "decrypt"
     /\ envelope.data # envelope.original
     /\ envelope.data.security_level \in {2, 3})
    => /\ outcome.result = NoPayload
       /\ outcome.status # "ok"
       /\ outcome.material
            => outcome.status = "DecryptionError: tag verification failed"

C4_Witness ==
    /\ outcome.op = "decrypt" /\ outcome.material
    /\ envelope.data.security_level = 3
    /\ envelope.data.aes_payload.ciphertext_b64 # envelope.original.aes_payload.ciphertext_b64
    /\ outcome.status = "DecryptionError: tag verification failed"
    /\ outcome.result = NoPayload

\* C5: a send at level 1 that asks for a key asks for at least as many bytes
\* as the serialized payload has, and when the key it gets is shorter encrypt
\* raises EncryptionError, produces no envelope and nothing is sent.
C5_OtpKeyLength ==
    (/\ outcome.op = "handle_send_email"
     /\ outcome.security_level = 1
     /\ outcome.requested # -1)
    => /\ outcome.requested >= outcome.payload_size
       /\ outcome.key_length < outcome.payload_size
            => /\ IsError(outcome.encrypted)
               /\ outcome.encrypted.error = "EncryptionError"
               /\ outcome.mail = NoEnvelope

C5_Witness ==
    /\ outcome.op = "handle_send_email"
    /\ outcome.security_level = 1
    /\ outcome.encryption_method = "pqc"
    /\ outcome.requested >= outcome.payload_size
    /\ outcome.key_length >= 0
    /\ outcome.key_length < outcome.payload_size
    /\ outcome.status = "EncryptionError"
    /\ envelope = NoEnvelope

\* C9: a send requested at level 1, 2 or 3 either hands the transport an
\* envelope of exactly that level, or hands it nothing and reports the failure.
C9_NoSilentDowngrade ==
    (/\ outcome.op = "handle_send_email"
     /\ outcome.security_level \in {1, 2, 3})
    => IF outcome.ok
       THEN /\ ~outcome.reported
            /\ outcome.mail # NoEnvelope
            /\ "security_level" \in DOMAIN outcome.mail
            /\ outcome.mail.security_level = outcome.security_level
            /\ envelope.sent
            /\ envelope.data = outcome.mail
       ELSE /\ outcome.reported
            /\ outcome.mail = NoEnvelope

C9_Witness ==
    /\ outcome.op = "handle_send_email"
    /\ outcome.security_level = 3
    /\ ~outcome.ok /\ outcome.reported
    /\ outcome.status = "EncryptionError"
    /\ outcome.mail = NoEnvelope
    /\ envelope = NoEnvelope

\* C10: after a successful decrypt of a level-1 or level-2 envelope of method
\* pqc, the key manager no longer holds the key of the envelope's key_id.
C10_DecryptInvalidatesKey ==
    (/\ outcome.op = "decrypt"
     /\ outcome.status = "ok"
     /\ envelope.data.security_level \in {1, 2}
     /\ envelope.data.encryption_method = "pqc")
    => envelope.data.key_id \notin DOMAIN symmetric_keys

\* C11: a level-3 decrypt that is given no private key fails with the
\* DecryptionError of the missing key, returns no payload, and calls neither
\* the KEM decapsulation nor AES-GCM.
C11_MissingPrivateKey ==
    (/\ outcome.op = "decrypt"
     /\ envelope.data.security_level = 3
     /\ Get(outcome.kw, "private_key_b64", << >>) = << >>)
    => /\ outcome.status = "DecryptionError: missing private key"
       /\ outcome.result = NoPayload
       /\ outcome.trace = << >>

C11_Witness ==
    /\ outcome.op = "decrypt"
    /\ envelope.data.security_level = 3
    /\ envelope.data = envelope.original
    /\ "private_key_b64" \in DOMAIN outcome.kw
    /\ outcome.kw.private_key_b64 = << >>
    /\ outcome.status = "DecryptionError: missing private key"
    /\ outcome.trace = << >>

\* C12: a level-3 decrypt with the private key of another pair than the one
\* whose public key was used by encrypt fails with the DecryptionError of a
\* failed tag verification and returns no payload.
C12_WrongPrivateKey ==
    (/\ outcome.op = "decrypt"
     /\ envelope.data.security_level = 3
     /\ Get(outcome.kw, "private_key_b64", << >>) # << >>
     /\ B64Decode(outcome.kw.private_key_b64) # PrivateKey(B64Decode(envelope.public_key_b64)[3]))
    => /\ outcome.status = "DecryptionError: tag verification failed"
       /\ outcome.result = NoPayload

C12_Witness ==
    /\ outcome.op = "decrypt"
    /\ envelope.data.security_level = 3
    /\ envelope.data = envelope.original
    /\ B64Decode(envelope.public_key_b64) = PublicKey(1)
    /\ "private_key_b64" \in DOMAIN outcome.kw
    /\ outcome.kw.private_key_b64 = B64Encode(PrivateKey(2))
    /\ outcome.trace = <<"kyber_kem_decrypt_512", "AES-GCM">>
    /\ outcome.status = "DecryptionError: tag verification failed"

\* C13: get_quantum_key_by_id of a key id that is neither in the instance's
\* cache nor in the directory raises the QKDServiceError that says the key was
\* not found, and leaves every cache as it was.
C13_KeyNotFound ==
    [][(/\ outcome'.op = "get_quantum_key_by_id"
        /\ outcome'.key_id \notin DOMAIN cache[outcome'.inst]
        /\ outcome'.key_id \notin DOMAIN qkd_keys)
       => /\ IsError(outcome'.result)
          /\ outcome'.result.error = "QKDServiceError: not found"
          /\ cache' = cache]_vars

C13_Witness ==
    /\ outcome.op = "get_quantum_key_by_id"
    /\ outcome.initialized /\ outcome.get = "ok"
    /\ outcome.key_id \notin DOMAIN cache[outcome.inst]
    /\ outcome.key_id \notin DOMAIN qkd_keys
    /\ \E j \in Instances : outcome.key_id \in DOMAIN cache[j]
    /\ IsError(outcome.result)
    /\ outcome.result.error = "QKDServiceError: not found"

\* the fields of a complete envelope of method qkd
QkdEnvelopeComplete(data) ==
    /\ DOMAIN data = {"qumail_version", "security_level", "encryption_method",
                      "key_id", "payload"}
    /\ DOMAIN data.payload =
         IF data.security_level = 2
         THEN {"ciphertext_b64", "nonce_b64", "auth_tag_b64", "salt_b64"}
         ELSE {"ciphertext_b64"}
    /\ Len(data.payload.ciphertext_b64) > 0

\* C14: when the publication of the key metadata fails during an encrypt of
\* method qkd, encrypt still returns a complete envelope and the key is in the
\* cache of the encrypting instance (and not in the directory).
C14_PublicationFailureTolerated ==
    (/\ outcome.op = "encrypt"
     /\ outcome.encryption_method = "qkd"
     /\ outcome.requested # -1
     /\ outcome.put = "fail")
    => /\ outcome.status = "ok"
       /\ envelope.data = outcome.result
       /\ QkdEnvelopeComplete(outcome.result)
       /\ outcome.result.key_id \in DOMAIN cache[outcome.inst]
       /\ Len(cache[outcome.inst][outcome.result.key_id].key_hex) > 0
       /\ outcome.result.key_id \notin DOMAIN qkd_keys

C14_Witness ==
    /\ outcome.op = "encrypt"
    /\ outcome.encryption_method = "qkd"
    /\ outcome.security_level = 2
    /\ outcome.put = "fail"
    /\ outcome.status = "ok"
    /\ QkdEnvelopeComplete(envelope.data)
    /\ envelope.data.key_id \in DOMAIN cache[outcome.inst]
    /\ envelope.data.key_id \notin DOMAIN qkd_keys

\* the members the message in flight has lost
MissingFields(env) ==
    ((DOMAIN env.original) \ (DOMAIN env.data))
    \cup (IF "payload" \in (DOMAIN env.original) \cap (DOMAIN env.data)
          THEN (DOMAIN env.original.payload) \ (DOMAIN env.data.payload) ELSE {})
    \cup (IF "aes_payload" \in (DOMAIN env.original) \cap (DOMAIN env.data)
          THEN (DOMAIN env.original.aes_payload) \ (DOMAIN env.data.aes_payload)
          ELSE {})

\* C15: decrypt of an envelope that lacks a member required at its level
\* fails with an error and returns no payload.
C15_StrictParsing ==
    (/\ outcome.op = "decrypt"
     /\ MissingFields(envelope) # {})
    => /\ outcome.status # "ok"
       /\ outcome.result = NoPayload

\* C16: a call of a key manager client that fails raises KeyManagerError,
\* after one request.
C16_SingleKeyManagerError ==
    (/\ outcome.op \in {"fetch_key", "get_symmetric_key", "get_symmetric_key_by_id"}
     /\ outcome.status # "ok")
    => /\ outcome.status = "KeyManagerError"
       /\ Len(outcome.requests) = 1

\* C17: the key a request for N bytes was answered with has N bytes, and a key
\* issued stays in the table until a retrieve-by-id for its key_id deletes it,
\* whatever requests for other keys are served meanwhile.
C17_KeyRetained ==
    /\ (/\ outcome.op = "get_symmetric_key"
         /\ outcome.status = "ok"
         /\ outcome.key_id \in DOMAIN symmetric_keys)
        => Len(FromHex(symmetric_keys[outcome.key_id])) = outcome.key_length_bytes
    /\ \A k \in issued :
         (/\ retrieved[k] = 0
          /\ \A w \in Workers : ~(req[w].key_id = k /\ req[w].pc = "commit"))
         => k \in DOMAIN symmetric_keys

C17_Witness ==
    /\ outcome.op = "get_symmetric_key"
    /\ outcome.key_length_bytes = 32
    /\ outcome.key_id \in DOMAIN symmetric_keys
    /\ Len(FromHex(symmetric_keys[outcome.key_id])) = 32
    /\ \E k \in issued \ {outcome.key_id} : retrieved[k] > 0
    /\ \E w \in Workers : req[w].pc = "done" /\ req[w].status = 404

\* C18: a generate-keys request for a user id that has a stored pair leaves
\* the pair stored for that user as it was.
C18_KeyPairGeneratedOnce ==
    (/\ outcome.op \in {"generate_keys", "save_settings"}
     /\ outcome.status = "ok"
     /\ outcome.before # NoRow)
    => pqc_keys[outcome.userId] = outcome.before[1]

\* the calls that stay inside the process: the imported primitives
LocalCalls == {"kyber_kem_decrypt_512", "PBKDF2", "AES-GCM"}

\* the state held by the remote services: key server and directory
remoteVars == <<symmetric_keys, issued, req, retrieved, pqc_keys, kem_generated,
                qkd_keys, pqc_public_keys>>

\* C19: a level-3 decrypt calls only local primitives (the decapsulation is
\* kyber_kem_decrypt_512 in the process), makes no request to the key server
\* or the directory and leaves their state unchanged.
C19_LocalDecapsulation ==
    [][(/\ outcome'.op = "decrypt"
        /\ envelope.data.security_level = 3)
       => /\ \A j \in 1..Len(outcome'.trace) : outcome'.trace[j] \in LocalCalls
          /\ UNCHANGED remoteVars]_vars

C19_Witness ==
    /\ outcome.op = "decrypt"
    /\ envelope.data.security_level = 3
    /\ outcome.status = "ok"
    /\ outcome.kw.private_key_b64 = B64Encode(PrivateKey(2))
    /\ outcome.trace = <<"kyber_kem_decrypt_512", "AES-GCM">>
    /\ SameContent(outcome.result, envelope)

\* C20: an encrypt at level 2 with method qkd asks the simulator for a key of
\* 32 bytes, whatever the size of the payload.
C20_Level2QkdKeyLength ==
    (/\ outcome.op = "encrypt"
     /\ outcome.security_level = 2
     /\ outcome.encryption_method = "qkd"
     /\ outcome.requested # -1)
    => outcome.requested = 32

\* C21: an entry of a simulator cache, once inserted, is never removed or
\* changed; and callers of one installation that looked up the same key_id,
\* whether they raced through the directory or hit the cache, hold the same
\* record, which is the cache entry.
C21_CacheInsertOnly ==
    /\ [][\A i \in Instances : \A k \in DOMAIN cache[i] :
            k \in DOMAIN cache'[i] /\ cache'[i][k] = cache[i][k]]_vars
    /\ [](\A c, d \in Callers :
            (/\ lookup[c].pc = "done" /\ ~IsError(lookup[c].result)
             /\ lookup[d].pc = "done" /\ ~IsError(lookup[d].result)
             /\ lookup[c].inst = lookup[d].inst
             /\ lookup[c].key_id = lookup[d].key_id)
            => /\ lookup[c].result = lookup[d].result
               /\ lookup[c].key_id \in DOMAIN cache[lookup[c].inst]
               /\ cache[lookup[c].inst][lookup[c].key_id] = lookup[c].result)

C21_Witness ==
    /\ outcome.op = "lookup finish" /\ outcome.raced
    /\ \A c \in Callers :
         /\ lookup[c].pc = "done" /\ ~IsError(lookup[c].result)
         /\ lookup[c].inst = "bob" /\ lookup[c].key_id = lookup[1].key_id
         /\ lookup[c].key_metadata # << >>
         /\ Len(lookup[c].result.key_hex) = 80
         /\ cache["bob"][lookup[c].key_id] = lookup[c].result

\* C22: a send that fails after it has started leaves the state of the remote
\* services, the key store of the key manager and the records of the
\* directory, as it was before the call.
C22_NoRemoteMutation ==
    [][(/\ outcome'.op = "handle_send_email"
        /\ ~outcome'.ok)
       => UNCHANGED <<symmetric_keys, pqc_keys, qkd_keys, pqc_public_keys>>]_vars

\* C23: an envelope made by encrypt at level 2 or 3 carries a 12-byte nonce and
\* a 16-byte authentication tag with its ciphertext; at level 2 a key_id, and
\* with method qkd the 16-byte salt of the key derivation; at level 3 the KEM
\* ciphertext and the wrapped key.
C23_AeadEnvelopeFields ==
    (/\ outcome.op = "encrypt"
     /\ outcome.status = "ok"
     /\ outcome.security_level \in {2, 3})
    => LET data == outcome.result
           part == IF outcome.security_level = 3 THEN data.aes_payload ELSE data.payload
       IN /\ envelope.data = data
          /\ {"ciphertext_b64", "nonce_b64", "auth_tag_b64"} \subseteq DOMAIN part
          /\ Len(B64Decode(part.nonce_b64)) = 12
          /\ Len(B64Decode(part.auth_tag_b64)) = 16
          /\ Len(B64Decode(part.ciphertext_b64)) = outcome.payload_size
          /\ IF outcome.security_level = 3
             THEN /\ {"kem_ciphertext_b64", "encrypted_symmetric_key_b64"} \subseteq DOMAIN data
                  /\ Len(B64Decode(data.kem_ciphertext_b64)) > 0
                  /\ Len(B64Decode(data.encrypted_symmetric_key_b64)) = 32
             ELSE /\ {"key_id", "encryption_method"} \subseteq DOMAIN data
                  /\ data.encryption_method = "qkd"
                       => /\ "salt_b64" \in DOMAIN part
                          /\ Len(B64Decode(part.salt_b64)) = 16
                          /\ data.key_id \in DOMAIN cache[outcome.inst]

C23_Witness ==
    /\ outcome.op = "encrypt" /\ outcome.status = "ok"
    /\ outcome.security_level = 2 /\ outcome.encryption_method = "qkd"
    /\ DOMAIN envelope.data.payload =
         {"ciphertext_b64", "nonce_b64", "auth_tag_b64", "salt_b64"}
    /\ Len(B64Decode(envelope.data.payload.auth_tag_b64)) = 16
    /\ Len(envelope.attachments) > 0

\* C24: an encrypt at level 1 or 2 with method qkd and no recipient raises
\* EncryptionError, generates no key (the caches and the directory stay as
\* they were) and returns no envelope.
C24_QkdNeedsRecipient ==
    [][(/\ outcome'.op = "encrypt"
        /\ outcome'.security_level \in {1, 2}
        /\ outcome'.encryption_method = "qkd"
        /\ outcome'.recipient_email = None)
       => /\ outcome'.status = "EncryptionError"
          /\ IsError(outcome'.result)
          /\ outcome'.requested = -1
          /\ UNCHANGED <<cache, qkd_keys, envelope>>]_vars

C24_Witness ==
    /\ outcome.op = "encrypt"
    /\ outcome.security_level = 2 /\ outcome.encryption_method = "qkd"
    /\ outcome.recipient_email = None
    /\ qkd_client[outcome.inst]
    /\ outcome.status = "EncryptionError"
    /\ envelope = NoEnvelope
    /\ cache[outcome.inst] = << >> /\ qkd_keys = << >>

\* C25: a save_settings whose generate-keys request fails, by an error status
\* or by a network error, raises KeyGenerationError and leaves the saved
\* settings (configuration file, password, private key) of every user as
\* they were.
C25_FailedSaveWritesNothing ==
    [][(/\ outcome'.op = "save_settings"
        /\ outcome'.post \in {"timeout", "refused", "status"})
       => /\ outcome'.status = "KeyGenerationError"
          /\ UNCHANGED settings]_vars

C25_Witness ==
    /\ outcome.op = "save_settings" /\ outcome.post = "status"
    /\ outcome.status = "KeyGenerationError"
    /\ settings[outcome.userId].password = "pw1" /\ outcome.password = "pw2"
    /\ settings[outcome.userId].imap_host # outcome.imap_host
    /\ settings[outcome.userId].pqc_private_key_b64 # << >>
    /\ pqc_keys[outcome.userId].privateKey_b64 = settings[outcome.userId].pqc_private_key_b64

\* C26: after a save_settings that completed without raising, the public key
\* the directory holds for that email is the one of the pair whose private key
\* is now stored in the user's settings.
C26_DirectoryKeyMatchesPrivateKey ==
    (/\ outcome.op = "save_settings"
     /\ outcome.status = "ok"
     /\ outcome.userId \in DOMAIN pqc_public_keys)
    => B64Decode(pqc_public_keys[outcome.userId].public_key_b64)[3]
         = B64Decode(settings[outcome.userId].pqc_private_key_b64)[3]

\* C27: CryptoService.get_quantum_key and get_quantum_key_by_id called on an
\* installation whose QKD client is not set (never initialized, or closed)
\* raise EncryptionError, also for a key_id that is in the cache, and leave
\* the client, the caches and the directory as they were.
C27_UninitializedRefused ==
    [][(/\ outcome'.op \in {"CryptoService.get_quantum_key",
                            "CryptoService.get_quantum_key_by_id"}
        /\ ~qkd_client[outcome'.inst])
       => /\ outcome'.status = "EncryptionError"
          /\ UNCHANGED <<qkd_client, cache, qkd_keys>>]_vars

C27_Witness ==
    /\ outcome.op = "CryptoService.get_quantum_key_by_id"
    /\ ~qkd_client[outcome.inst]
    /\ outcome.key_id \in DOMAIN cache[outcome.inst]
    /\ outcome.key_id \in DOMAIN qkd_keys
    /\ outcome.status = "EncryptionError"

\* C28: handle_email_selection on a level-1 or level-2 message whose
\* encryption_method is pqc or absent reports a DecryptionError, displays no
\* content and leaves the key server as it was: the key of the message's
\* key_id, if stored, stays stored.
C28_LegacyPqcRefused ==
    [][(/\ outcome'.op = "handle_email_selection"
        /\ envelope.data.security_level \in {1, 2}
        /\ Get(envelope.data, "encryption_method", "pqc") # "qkd")
       => /\ outcome'.status = "DecryptionError: legacy pqc unsupported"
          /\ outcome'.displayed = NoPayload
          /\ UNCHANGED <<symmetric_keys, issued, req, retrieved, cache>>]_vars

C28_Witness ==
    /\ outcome.op = "handle_email_selection" /\ outcome.inst = "bob"
    /\ envelope.sent
    /\ envelope.data.security_level = 2
    /\ envelope.data.encryption_method = "pqc"
    /\ outcome.status = "DecryptionError: legacy pqc unsupported"
    /\ envelope.data.key_id \in DOMAIN symmetric_keys
    /\ symmetric_keys[envelope.data.key_id] = envelope.key_hex
    /\ retrieved[envelope.data.key_id] = 0

\* C29: a decrypt of a qkd envelope that follows a successful decrypt of it
\* on the same installation succeeds as well, returns the same payload and
\* leaves the simulator caches as the earlier decrypt left them.
C29_RepeatedDecrypt ==
    [][(/\ outcome.op = "decrypt" /\ outcome.status = "ok"
        /\ outcome'.op = "decrypt" /\ outcome'.inst = outcome.inst
        /\ envelope.data.security_level \in {1, 2}
        /\ envelope.data.encryption_method = "qkd")
       => /\ outcome'.status = "ok"
          /\ outcome'.result = outcome.result
          /\ SameContent(outcome'.result, envelope)
          /\ cache' = cache]_vars

C29_Witness ==
    /\ outcome.op = "decrypt" /\ outcome.inst = "bob" /\ outcome.status = "ok"
    /\ envelope.data.security_level = 2
    /\ envelope.data.encryption_method = "qkd"
    /\ outcome.trace = <<"PBKDF2", "AES-GCM">>
    /\ envelope.data.key_id \in DOMAIN cache["bob"]
    /\ SameContent(outcome.result, envelope)

\* C30: the key derived for a key_id and a length n has exactly n bytes, and
\* for every m <= n the key derived for length m has m bytes and is the first
\* m bytes of it; for length 0 it is empty.
C30_PrefixConsistent ==
    outcome.op = "get_deterministic_key"
    => /\ Len(outcome.key) = outcome.key_length
       /\ \A m \in 0..outcome.key_length :
            /\ Len(get_deterministic_key(outcome.key_id, m)) = m
            /\ get_deterministic_key(outcome.key_id, m) = SubSeq(outcome.key, 1, m)
       /\ get_deterministic_key(outcome.key_id, 0) = << >>

C30_Witness ==
    /\ outcome.op = "get_deterministic_key"
    /\ outcome.key_length = 65 /\ Len(outcome.key) = 65
    /\ get_deterministic_key(outcome.key_id, 33) = SubSeq(outcome.key, 1, 33)
    /\ SubSeq(outcome.key, 1, 32) # SubSeq(outcome.key, 33, 64)
    /\ get_deterministic_key(outcome.key_id, 0) = << >>

====
